---- MODULE Spec2Model ----
(***************************************************************************)
(* Model of the offline cache manager (OfflineCacheManager): an in-memory  *)
(* index of entry metadata, one blob file per cache key, a snapshot file   *)
(* of index and stats, TTL expiry and size-bound eviction, and the         *)
(* compress/encrypt pipeline applied to stored payloads.                   *)
(***************************************************************************)
EXTENDS Integers, Sequences, FiniteSets, TLC

(***************************************************************************)
(* Bounds of the model.                                                    *)
(***************************************************************************)
\* the clock (Date.now()) runs over 0..MaxTime
MaxTime == 3
\* a manager answers at most MaxGets get calls between two clear() calls
MaxGets == 2
\* caller-supplied options.ttl values are 0..MaxTtl
MaxTtl == 1
\* config.maxCacheAge, the default ttl (7 days in the source), scaled to the clock
DefaultMaxCacheAge == 2
\* config.maxCacheSize (50MB in the source), scaled to the payloads of the model
DefaultMaxCacheSize == 70

\* the managers (processes) that may be constructed on the cache directory
Managers == {1, 2}

(***************************************************************************)
(* JavaScript values.  A value is its type tag (typeof) and its text: the  *)
(* string itself for a string, the JSON text for anything else.  A string  *)
(* that is an encoded payload also carries the transforms applied to it    *)
(* (layers, see below); the values callers pass have none.                 *)
(***************************************************************************)
ObjText == "{\"n\":1}"

StrX == [type |-> "string", text |-> "x", layers |-> <<>>]
ObjN == [type |-> "object", text |-> ObjText, layers |-> <<>>]
Null == [type |-> "object", text |-> "null", layers |-> <<>>]

\* the values handed to set
Values == {StrX, ObjN}

KeyA == [type |-> "string", text |-> "a"]
KeyB == [type |-> "string", text |-> "b"]
KeyS1 == [type |-> "string", text |-> "1"]
KeyN1 == [type |-> "number", text |-> "1"]

\* the keys handed to set/get/has/delete: three strings and the number 1
Keys == {KeyA, KeyB, KeyS1, KeyN1}

\* the keys of the general specifications
CoreKeys == {KeyA, KeyS1}

\* keys with an alias: the number 1 and the string "1" have the same cache key
AliasKeys == {KeyA, KeyS1, KeyN1}

\* the keys of the eviction specification: three cache keys
EvictKeys == {KeyA, KeyB, KeyS1}

\* JSON.stringify(v) of a non-string value: its JSON text
JSONstringify(v) == [text |-> v.text, layers |-> <<>>]

\* the texts JSON.parse accepts, with the typeof of what it returns
JSONTexts == {ObjText, "1", "null"}

JSONtypeof(t) == IF t = "1" THEN "number" ELSE "object"

\* Buffer.byteLength of the plain texts of the model
TextLen(t) == IF t = ObjText THEN 7 ELSE IF t = "null" THEN 4 ELSE 1

(***************************************************************************)
(* Payload strings.  A payload is a plain text under the transforms that   *)
(* were applied to it, outermost first: "gz" (gzip + base64), "aes"        *)
(* (aes192 + hex).                                                         *)
(***************************************************************************)
\* length of gzipSync(n bytes).toString('base64'): header, trailer and a
\* stored block add 20 bytes, base64 turns 3 bytes into 4 characters
GzipBase64Len(n) == 4 * ((n + 20 + 2) \div 3)

\* length of the hex text of an aes192 (16-byte block, padded) ciphertext
AesHexLen(n) == 2 * 16 * ((n \div 16) + 1)

RECURSIVE LayeredLen(_, _)
LayeredLen(n, layers) ==
    IF layers = <<>> THEN n
    ELSE LET inner == LayeredLen(n, Tail(layers))
         IN  IF Head(layers) = "gz" THEN GzipBase64Len(inner) ELSE AesHexLen(inner)

\* Buffer.byteLength(payload, 'utf8')
byteLength(d) == LayeredLen(TextLen(d.text), d.layers)

(***************************************************************************)
(* State.                                                                  *)
(***************************************************************************)
VARIABLES
    config,          \* config[m]: this.config of manager m
    cacheIndex,      \* cacheIndex[m]: this.cacheIndex, the Map in insertion order
    cacheStats,      \* cacheStats[m]: this.cacheStats
    blobs,           \* the <cacheKey>.cache files of the cache directory
    snapshot,        \* cache-index.json: <<>> when missing, else <<its content>>;
                     \* the content has parses = FALSE when JSON.parse rejects it
    now,             \* Date.now()
    cipherAvailable, \* whether crypto.createCipher exists in the running Node build
    stored,          \* stored[ck]: the value of the latest successful set on cache key ck
    lastSet,         \* lastSet[k]: the value of the latest successful set(k, v)
    backupDir,       \* localBackupDir of backup-data.js: file name -> its mtime
    localFiles,      \* CrossPlatformSync: localFiles[f], file f of the working directory,
                     \* <<>> when missing, else <<[content, lastModified]>>
    remoteFiles,     \* remoteFiles[f]: file f of the GitHub repository, <<>> when
                     \* missing, else <<[content, sha, date]>>
    conflictResolution, \* this.config.conflictResolution
    conflictLog,     \* this.conflictLog
    syncHistory,     \* this.syncHistory
    syncRuns,        \* the performSync executions in progress, each at its await
    syncTimer,       \* <<>>, or <<the time the setInterval timer fires next>>
    validatorInput,  \* DataValidator: what the repository gives for each supported file
    validatorExit,   \* <<>>, or <<the exit status of validate()>>
    testResults,     \* APITester: this.testResults
    testerExit,      \* <<>>, or <<the exit status of runAllTests()>>
    ipRecords        \* CleanupService: ip-records.json of the repository, <<>> when
                     \* missing, else <<[records, metadata]>>

\* the state of CrossPlatformSync
syncVars == <<localFiles, remoteFiles, conflictResolution, conflictLog, syncHistory,
              syncRuns, syncTimer>>

\* the state of OfflineCacheManager and DataBackup
cacheVars == <<config, cacheIndex, cacheStats, blobs, snapshot, cipherAvailable, stored,
               lastSet, backupDir>>

\* the state of DataValidator, APITester and CleanupService
toolVars == <<validatorInput, validatorExit, testResults, testerExit, ipRecords>>

vars == <<config, cacheIndex, cacheStats, blobs, snapshot, now, cipherAvailable,
          stored, lastSet, backupDir, syncVars, toolVars>>

\* crypto.createHash('md5').update(text).digest('hex'): one digest per text
md5(t) == <<"md5", t>>

\* generateCacheKey(data): a string is hashed as it is, anything else as its JSON text
generateCacheKey(data) ==
    IF data.type = "string" THEN md5(data.text) ELSE md5(JSONstringify(data).text)

CacheKeys == {generateCacheKey(k) : k \in Keys}

(***************************************************************************)
(* The Map this.cacheIndex: a sequence of metadata records, one per key,   *)
(* in insertion order.                                                     *)
(***************************************************************************)
MapHas(idx, ck) == \E i \in 1..Len(idx) : idx[i].cacheKey = ck

MapGet(idx, ck) == idx[CHOOSE i \in 1..Len(idx) : idx[i].cacheKey = ck]

\* MapSet with a bug: an existing entry is kept as it is
MapSetKeepsOld(idx, ck, md) ==
    IF MapHas(idx, ck) THEN idx ELSE Append(idx, md)

\* MapSet with a bug: every set adds an entry
MapSetAppends(idx, ck, md) == Append(idx, md)

\* Map.set: an existing key keeps its place, a new key goes last
MapSet(idx, ck, md) ==
    IF MapHas(idx, ck)
    THEN [i \in 1..Len(idx) |-> IF idx[i].cacheKey = ck THEN md ELSE idx[i]]
    ELSE Append(idx, md)

\* MapDelete with a bug: nothing is removed
MapDeleteKeepsAll(idx, ck) == idx

MapDelete(idx, ck) == SelectSeq(idx, LAMBDA e : e.cacheKey # ck)

MapKeys(idx) == {idx[i].cacheKey : i \in 1..Len(idx)}

RECURSIVE SumSize(_)
SumSize(idx) == IF idx = <<>> THEN 0 ELSE Head(idx).size + SumSize(Tail(idx))

\* fs.unlinkSync of the blob file of ck
Unlink(fs, ck) == [c \in (DOMAIN fs) \ {ck} |-> fs[c]]

\* WriteFile with a bug: the other files of the directory are lost
WriteFileAlone(fs, ck, content) == [c \in {ck} |-> content]

\* fs.writeFileSync of the blob file of ck
WriteFile(fs, ck, content) == [c \in (DOMAIN fs) \cup {ck} |-> IF c = ck THEN content ELSE fs[c]]

(***************************************************************************)
(* Stats and snapshot.                                                     *)
(***************************************************************************)
\* the cacheStats literal of the constructor; lastCleanup is <<>> for null
InitialStats == [totalSize |-> 0, totalFiles |-> 0, hits |-> 0, misses |-> 0,
                 lastCleanup |-> <<>>]

updateCacheStats(idx, stats) ==
    [stats EXCEPT !.totalSize = SumSize(idx), !.totalFiles = Len(idx)]

\* saveCacheIndex with a bug: the snapshot is written without the entries
saveCacheIndexEmpty(idx, stats) == <<[parses |-> TRUE, index |-> <<>>, stats |-> stats]>>

\* the content saveCacheIndex writes to cache-index.json
saveCacheIndex(idx, stats) == <<[parses |-> TRUE, index |-> idx, stats |-> stats]>>

\* loadCacheIndex with a bug: what is left of an unparsable file is loaded
loadCacheIndexSalvages(snap) ==
    IF snap # <<>>
    THEN [index |-> snap[1].index, stats |-> snap[1].stats]
    ELSE [index |-> <<>>, stats |-> InitialStats]

\* loadCacheIndex: index and stats of the snapshot when the file exists and parses;
\* when JSON.parse throws, the catch block starts a new Map and the stats stay
\* those of the constructor
loadCacheIndex(snap) ==
    IF snap # <<>> /\ snap[1].parses
    THEN [index |-> snap[1].index, stats |-> snap[1].stats]
    ELSE [index |-> <<>>, stats |-> InitialStats]

(***************************************************************************)
(* Codec pipeline.                                                         *)
(***************************************************************************)
compressData(data, cfg) ==
    IF ~cfg.compressionEnabled THEN data
    ELSE [data EXCEPT !.layers = <<"gz">> \o @]

decompressData(compressedData, isCompressed, cfg) ==
    IF ~isCompressed \/ ~cfg.compressionEnabled THEN compressedData
    ELSE IF compressedData.layers # <<>> /\ Head(compressedData.layers) = "gz"
         THEN [compressedData EXCEPT !.layers = Tail(@)]
         ELSE compressedData    \* gunzip throws: the input is returned

encryptData(data, cfg, cipher) ==
    IF ~cfg.encryptionEnabled THEN data
    ELSE IF cipher
         THEN [data EXCEPT !.layers = <<"aes">> \o @]
         ELSE data              \* createCipher throws: the input is returned

decryptData(encryptedData, isEncrypted, cfg, cipher) ==
    IF ~isEncrypted \/ ~cfg.encryptionEnabled THEN encryptedData
    ELSE IF cipher /\ encryptedData.layers # <<>> /\ Head(encryptedData.layers) = "aes"
         THEN [encryptedData EXCEPT !.layers = Tail(@)]
         ELSE encryptedData     \* decipher throws: the input is returned

\* JSON.parse(payload) succeeds on a plain JSON text only
JSONparses(d) == d.layers = <<>> /\ d.text \in JSONTexts

JSONparse(d) == [type |-> JSONtypeof(d.text), text |-> d.text, layers |-> <<>>]

\* a payload string as a JavaScript string value
StringValue(d) == [type |-> "string", text |-> d.text, layers |-> d.layers]

\* typeof data === 'string' ? data : JSON.stringify(data)
processedDataOf(data) ==
    IF data.type = "string" THEN [text |-> data.text, layers |-> data.layers]
    ELSE JSONstringify(data)

(***************************************************************************)
(* The operations of one manager, as functions of the manager's state      *)
(* S = [idx, stats, fs, snap]: its index, its stats, the blob files and    *)
(* the snapshot file.  Each returns the state it leaves and what the       *)
(* method returns.                                                         *)
(***************************************************************************)
NoKey == [type |-> "undefined", text |-> ""]

\* options.ttl || this.config.maxCacheAge; options is <<>> when no ttl is given
ttlOf(options, cfg) ==
    IF options = <<>> \/ options[1] = 0 THEN cfg.maxCacheAge ELSE options[1]

\* metadataOf with a bug: the flags are the stages asked for, not those applied
metadataOfRequested(key, data, options, cfg, cipher, t) ==
    LET processedData == processedDataOf(data)
        encrypted == encryptData(compressData(processedData, cfg), cfg, cipher)
        ttl == ttlOf(options, cfg)
    IN  [key |-> key,
         cacheKey |-> generateCacheKey(key),
         timestamp |-> t,
         ttl |-> ttl,
         expiresAt |-> t + ttl,
         size |-> byteLength(encrypted),
         isCompressed |-> cfg.compressionEnabled,
         isEncrypted |-> cfg.encryptionEnabled,
         dataType |-> data.type]

\* the metadata record set builds for the entry
metadataOf(key, data, options, cfg, cipher, t) ==
    LET processedData == processedDataOf(data)
        compressed == compressData(processedData, cfg)
        encrypted == encryptData(compressed, cfg, cipher)
        ttl == ttlOf(options, cfg)
    IN  [key |-> key,
         cacheKey |-> generateCacheKey(key),
         timestamp |-> t,
         ttl |-> ttl,
         expiresAt |-> t + ttl,
         size |-> byteLength(encrypted),
         isCompressed |-> compressed # processedData,
         isEncrypted |-> encrypted # compressed,
         dataType |-> data.type]

\* the payload set writes to the blob file
encodedOf(data, cfg, cipher) ==
    encryptData(compressData(processedDataOf(data), cfg), cfg, cipher)

\* set with a bug: the index is updated and saved before the blob is written
setIndexBeforeWrite(S, cfg, cipher, t, key, data, options, write) ==
    LET cacheKey == generateCacheKey(key)
        metadata == metadataOf(key, data, options, cfg, cipher, t)
        cacheData == [torn |-> FALSE, metadata |-> metadata,
                      data |-> encodedOf(data, cfg, cipher)]
        idx == MapSet(S.idx, cacheKey, metadata)
        stats == updateCacheStats(idx, [S.stats EXCEPT !.totalFiles = Len(idx)])
    IN  [idx |-> idx, stats |-> stats,
         fs |-> IF write = "ok" THEN WriteFile(S.fs, cacheKey, cacheData)
                ELSE IF write = "torn" THEN WriteFile(S.fs, cacheKey, [torn |-> TRUE])
                ELSE S.fs,
         snap |-> saveCacheIndex(idx, stats), ok |-> write = "ok"]

\* what a failed fs.writeFileSync may leave of the blob file: a partial content
\* that JSON.parse rejects
TornFile == [torn |-> TRUE]

\* set(key, data, options); write is what fs.writeFileSync of the blob does: "ok",
\* "fails" (it throws and leaves the file as it was) or "torn" (it throws after
\* truncating the file)
set(S, cfg, cipher, t, key, data, options, write) ==
    LET cacheKey == generateCacheKey(key)
        metadata == metadataOf(key, data, options, cfg, cipher, t)
        cacheData == [torn |-> FALSE, metadata |-> metadata,
                      data |-> encodedOf(data, cfg, cipher)]
        idx == MapSet(S.idx, cacheKey, metadata)
        stats == updateCacheStats(idx, [S.stats EXCEPT !.totalFiles = Len(idx)])
    IN  IF write = "ok"
        THEN [idx |-> idx, stats |-> stats, fs |-> WriteFile(S.fs, cacheKey, cacheData),
              snap |-> saveCacheIndex(idx, stats), ok |-> TRUE]
        ELSE [idx |-> S.idx, stats |-> S.stats,
              fs |-> IF write = "torn" THEN WriteFile(S.fs, cacheKey, TornFile) ELSE S.fs,
              snap |-> S.snap, ok |-> FALSE]

\* isExpired with a bug: the entry expires one tick early
isExpiredAtBoundary(t, metadata) == t >= metadata.expiresAt

\* Date.now() > metadata.expiresAt
isExpired(t, metadata) == t > metadata.expiresAt

\* delete with a bug: the blob file is left behind
deleteKeepsBlob(S, key) ==
    LET cacheKey == generateCacheKey(key)
        idx == MapDelete(S.idx, cacheKey)
        stats == updateCacheStats(idx, S.stats)
    IN  IF MapHas(S.idx, cacheKey)
        THEN [idx |-> idx, stats |-> stats, fs |-> S.fs,
              snap |-> saveCacheIndex(idx, stats), ok |-> TRUE]
        ELSE [idx |-> S.idx, stats |-> S.stats, fs |-> S.fs, snap |-> S.snap, ok |-> FALSE]

\* delete with a bug: a removal is reported as false
deleteReportsFalse(S, key) ==
    LET cacheKey == generateCacheKey(key)
        idx == MapDelete(S.idx, cacheKey)
        stats == updateCacheStats(idx, S.stats)
    IN  IF MapHas(S.idx, cacheKey)
        THEN [idx |-> idx, stats |-> stats,
              fs |-> IF cacheKey \in DOMAIN S.fs THEN Unlink(S.fs, cacheKey) ELSE S.fs,
              snap |-> saveCacheIndex(idx, stats), ok |-> FALSE]
        ELSE [idx |-> S.idx, stats |-> S.stats, fs |-> S.fs, snap |-> S.snap, ok |-> FALSE]

\* delete(key)
delete(S, key) ==
    LET cacheKey == generateCacheKey(key)
        idx == MapDelete(S.idx, cacheKey)
        stats == updateCacheStats(idx, S.stats)
    IN  IF MapHas(S.idx, cacheKey)
        THEN [idx |-> idx, stats |-> stats,
              fs |-> IF cacheKey \in DOMAIN S.fs THEN Unlink(S.fs, cacheKey) ELSE S.fs,
              snap |-> saveCacheIndex(idx, stats), ok |-> TRUE]
        ELSE [idx |-> S.idx, stats |-> S.stats, fs |-> S.fs, snap |-> S.snap, ok |-> FALSE]

\* Miss with a bug: the miss is not counted
MissUncounted(stats) == stats

Miss(stats) == [stats EXCEPT !.misses = @ + 1]

Hit(stats) == [stats EXCEPT !.hits = @ + 1]

\* decodedOf with a bug: decompress runs before decrypt
decodedWrongOrder(cacheData, metadata, cfg, cipher) ==
    decryptData(decompressData(cacheData.data, metadata.isCompressed, cfg),
                metadata.isEncrypted, cfg, cipher)

\* the value get decodes from the blob of an entry
decodedOf(cacheData, metadata, cfg, cipher) ==
    decompressData(decryptData(cacheData.data, metadata.isEncrypted, cfg, cipher),
                   metadata.isCompressed, cfg)

\* get with a bug: a hit renews the timestamp of the entry
getTouches(S, cfg, cipher, t, key) ==
    LET cacheKey == generateCacheKey(key)
        metadata == MapGet(S.idx, cacheKey)
        deleted == delete(S, key)
        decompressed == decodedOf(S.fs[cacheKey], metadata, cfg, cipher)
        touched == MapSet(S.idx, cacheKey, [metadata EXCEPT !.timestamp = t])
    IN  IF ~MapHas(S.idx, cacheKey)
        THEN [idx |-> S.idx, stats |-> Miss(S.stats), fs |-> S.fs, snap |-> S.snap,
              val |-> Null, hit |-> FALSE]
        ELSE IF isExpired(t, metadata)
        THEN [idx |-> deleted.idx, stats |-> Miss(deleted.stats), fs |-> deleted.fs,
              snap |-> deleted.snap, val |-> Null, hit |-> FALSE]
        ELSE IF cacheKey \notin DOMAIN S.fs
        THEN [idx |-> MapDelete(S.idx, cacheKey), stats |-> Miss(S.stats), fs |-> S.fs,
              snap |-> S.snap, val |-> Null, hit |-> FALSE]
        ELSE IF S.fs[cacheKey].torn
        THEN [idx |-> S.idx, stats |-> Miss(S.stats), fs |-> S.fs, snap |-> S.snap,
              val |-> Null, hit |-> FALSE]
        ELSE IF metadata.dataType = "string"
        THEN [idx |-> touched, stats |-> Hit(S.stats), fs |-> S.fs, snap |-> S.snap,
              val |-> StringValue(decompressed), hit |-> TRUE]
        ELSE IF JSONparses(decompressed)
        THEN [idx |-> touched, stats |-> Hit(S.stats), fs |-> S.fs, snap |-> S.snap,
              val |-> JSONparse(decompressed), hit |-> TRUE]
        ELSE [idx |-> S.idx, stats |-> Miss(S.stats), fs |-> S.fs, snap |-> S.snap,
              val |-> Null, hit |-> FALSE]

\* get with a bug: an entry whose blob cannot be read or decoded is deleted
getDropsUnreadable(S, cfg, cipher, t, key) ==
    LET cacheKey == generateCacheKey(key)
        metadata == MapGet(S.idx, cacheKey)
        deleted == delete(S, key)
        decompressed == decodedOf(S.fs[cacheKey], metadata, cfg, cipher)
    IN  IF ~MapHas(S.idx, cacheKey)
        THEN [idx |-> S.idx, stats |-> Miss(S.stats), fs |-> S.fs, snap |-> S.snap,
              val |-> Null, hit |-> FALSE]
        ELSE IF isExpired(t, metadata)
        THEN [idx |-> deleted.idx, stats |-> Miss(deleted.stats), fs |-> deleted.fs,
              snap |-> deleted.snap, val |-> Null, hit |-> FALSE]
        ELSE IF cacheKey \notin DOMAIN S.fs
        THEN [idx |-> MapDelete(S.idx, cacheKey), stats |-> Miss(S.stats), fs |-> S.fs,
              snap |-> S.snap, val |-> Null, hit |-> FALSE]
        ELSE IF S.fs[cacheKey].torn
        THEN [idx |-> deleted.idx, stats |-> Miss(deleted.stats), fs |-> deleted.fs,
              snap |-> deleted.snap, val |-> Null, hit |-> FALSE]
        ELSE IF metadata.dataType = "string"
        THEN [idx |-> S.idx, stats |-> Hit(S.stats), fs |-> S.fs, snap |-> S.snap,
              val |-> StringValue(decompressed), hit |-> TRUE]
        ELSE IF JSONparses(decompressed)
        THEN [idx |-> S.idx, stats |-> Hit(S.stats), fs |-> S.fs, snap |-> S.snap,
              val |-> JSONparse(decompressed), hit |-> TRUE]
        ELSE [idx |-> deleted.idx, stats |-> Miss(deleted.stats), fs |-> deleted.fs,
              snap |-> deleted.snap, val |-> Null, hit |-> FALSE]

\* get(key)
get(S, cfg, cipher, t, key) ==
    LET cacheKey == generateCacheKey(key)
        metadata == MapGet(S.idx, cacheKey)
        deleted == delete(S, key)
        decompressed == decodedOf(S.fs[cacheKey], metadata, cfg, cipher)
    IN  IF ~MapHas(S.idx, cacheKey)
        THEN [idx |-> S.idx, stats |-> Miss(S.stats), fs |-> S.fs, snap |-> S.snap,
              val |-> Null, hit |-> FALSE]
        ELSE IF isExpired(t, metadata)
        THEN [idx |-> deleted.idx, stats |-> Miss(deleted.stats), fs |-> deleted.fs,
              snap |-> deleted.snap, val |-> Null, hit |-> FALSE]
        ELSE IF cacheKey \notin DOMAIN S.fs
        THEN [idx |-> MapDelete(S.idx, cacheKey), stats |-> Miss(S.stats), fs |-> S.fs,
              snap |-> S.snap, val |-> Null, hit |-> FALSE]
        ELSE IF S.fs[cacheKey].torn
        THEN \* JSON.parse of the file throws: the catch block counts a miss
             [idx |-> S.idx, stats |-> Miss(S.stats), fs |-> S.fs, snap |-> S.snap,
              val |-> Null, hit |-> FALSE]
        ELSE IF metadata.dataType = "string"
        THEN [idx |-> S.idx, stats |-> Hit(S.stats), fs |-> S.fs, snap |-> S.snap,
              val |-> StringValue(decompressed), hit |-> TRUE]
        ELSE IF JSONparses(decompressed)
        THEN [idx |-> S.idx, stats |-> Hit(S.stats), fs |-> S.fs, snap |-> S.snap,
              val |-> JSONparse(decompressed), hit |-> TRUE]
        ELSE \* JSON.parse throws: the catch block counts a miss
             [idx |-> S.idx, stats |-> Miss(S.stats), fs |-> S.fs, snap |-> S.snap,
              val |-> Null, hit |-> FALSE]

\* has with a bug: the expiry of the entry is not looked at
hasIgnoresExpiry(S, t, key) ==
    [idx |-> S.idx, stats |-> S.stats, fs |-> S.fs, snap |-> S.snap,
     ok |-> MapHas(S.idx, generateCacheKey(key))]

\* has(key)
has(S, t, key) ==
    LET cacheKey == generateCacheKey(key)
        metadata == MapGet(S.idx, cacheKey)
        deleted == delete(S, key)
    IN  IF ~MapHas(S.idx, cacheKey)
        THEN [idx |-> S.idx, stats |-> S.stats, fs |-> S.fs, snap |-> S.snap, ok |-> FALSE]
        ELSE IF isExpired(t, metadata)
        THEN [idx |-> deleted.idx, stats |-> deleted.stats, fs |-> deleted.fs,
              snap |-> deleted.snap, ok |-> FALSE]
        ELSE [idx |-> S.idx, stats |-> S.stats, fs |-> S.fs, snap |-> S.snap, ok |-> TRUE]

(***************************************************************************)
(* The sweeps.                                                             *)
(***************************************************************************)
\* the loop of cleanupExpired over the entries of the index: R carries the
\* index, the blob files and the two counters
\* expiredLoop with a bug: the loop looks at the first entry only
expiredLoopFirstOnly(entries, R, t) ==
    IF entries = <<>> THEN R
    ELSE LET metadata == Head(entries)
             exists == metadata.cacheKey \in DOMAIN R.fs
         IN  IF isExpired(t, metadata)
             THEN [idx |-> MapDelete(R.idx, metadata.cacheKey),
                   fs |-> IF exists THEN Unlink(R.fs, metadata.cacheKey) ELSE R.fs,
                   cleanedCount |-> R.cleanedCount + 1,
                   cleanedSize |-> R.cleanedSize + (IF exists THEN metadata.size ELSE 0)]
             ELSE R

RECURSIVE expiredLoop(_, _, _)
expiredLoop(entries, R, t) ==
    IF entries = <<>> THEN R
    ELSE LET metadata == Head(entries)
             exists == metadata.cacheKey \in DOMAIN R.fs
         IN  IF isExpired(t, metadata)
             THEN expiredLoop(Tail(entries),
                      [idx |-> MapDelete(R.idx, metadata.cacheKey),
                       fs |-> IF exists THEN Unlink(R.fs, metadata.cacheKey) ELSE R.fs,
                       cleanedCount |-> R.cleanedCount + 1,
                       cleanedSize |-> R.cleanedSize + (IF exists THEN metadata.size ELSE 0)],
                      t)
             ELSE expiredLoop(Tail(entries), R, t)

\* cleanupExpired()
cleanupExpired(S, t) ==
    LET R == expiredLoop(S.idx, [idx |-> S.idx, fs |-> S.fs, cleanedCount |-> 0,
                                 cleanedSize |-> 0], t)
        stats == updateCacheStats(R.idx, S.stats)
    IN  IF R.cleanedCount > 0
        THEN [idx |-> R.idx, stats |-> [stats EXCEPT !.lastCleanup = <<t>>], fs |-> R.fs,
              snap |-> saveCacheIndex(R.idx, stats),
              cleanedCount |-> R.cleanedCount, cleanedSize |-> R.cleanedSize]
        ELSE [idx |-> S.idx, stats |-> S.stats, fs |-> S.fs, snap |-> S.snap,
              cleanedCount |-> 0, cleanedSize |-> 0]

\* Array.prototype.sort((a, b) => a.timestamp - b.timestamp): stable, so entries
\* of equal timestamp keep the order of the index
RECURSIVE insertByTimestamp(_, _)
insertByTimestamp(sorted, e) ==
    IF sorted = <<>> THEN <<e>>
    ELSE IF sorted[Len(sorted)].timestamp <= e.timestamp THEN Append(sorted, e)
    ELSE Append(insertByTimestamp(SubSeq(sorted, 1, Len(sorted) - 1), e), sorted[Len(sorted)])

\* sortedEntries with a bug: the entries are taken in the order of the index
unsortedEntries(idx) == idx

RECURSIVE sortedEntries(_)
sortedEntries(idx) ==
    IF idx = <<>> THEN <<>>
    ELSE insertByTimestamp(sortedEntries(SubSeq(idx, 1, Len(idx) - 1)), idx[Len(idx)])

\* the loop of cleanupOversized over the sorted entries; totalSize is
\* this.cacheStats.totalSize, read and not written during the loop
RECURSIVE oversizedLoop(_, _, _, _)
oversizedLoop(entries, R, totalSize, maxCacheSize) ==
    IF entries = <<>> THEN R
    ELSE IF totalSize - R.cleanedSize <= maxCacheSize THEN R
    ELSE LET metadata == Head(entries)
             exists == metadata.cacheKey \in DOMAIN R.fs
         IN  oversizedLoop(Tail(entries),
                 [idx |-> MapDelete(R.idx, metadata.cacheKey),
                  fs |-> IF exists THEN Unlink(R.fs, metadata.cacheKey) ELSE R.fs,
                  cleanedCount |-> R.cleanedCount + 1,
                  cleanedSize |-> R.cleanedSize + (IF exists THEN metadata.size ELSE 0)],
                 totalSize, maxCacheSize)

\* cleanupOversized with a bug: the totals are not recomputed after the sweep
cleanupOversizedStaleStats(S, cfg) ==
    LET R == oversizedLoop(sortedEntries(S.idx),
                           [idx |-> S.idx, fs |-> S.fs, cleanedCount |-> 0, cleanedSize |-> 0],
                           S.stats.totalSize, cfg.maxCacheSize)
    IN  IF S.stats.totalSize <= cfg.maxCacheSize
        THEN [idx |-> S.idx, stats |-> S.stats, fs |-> S.fs, snap |-> S.snap,
              cleanedCount |-> 0, cleanedSize |-> 0]
        ELSE [idx |-> R.idx, stats |-> S.stats, fs |-> R.fs,
              snap |-> saveCacheIndex(R.idx, S.stats),
              cleanedCount |-> R.cleanedCount, cleanedSize |-> R.cleanedSize]

\* cleanupOversized()
cleanupOversized(S, cfg) ==
    LET R == oversizedLoop(sortedEntries(S.idx),
                           [idx |-> S.idx, fs |-> S.fs, cleanedCount |-> 0, cleanedSize |-> 0],
                           S.stats.totalSize, cfg.maxCacheSize)
        stats == updateCacheStats(R.idx, S.stats)
    IN  IF S.stats.totalSize <= cfg.maxCacheSize
        THEN [idx |-> S.idx, stats |-> S.stats, fs |-> S.fs, snap |-> S.snap,
              cleanedCount |-> 0, cleanedSize |-> 0]
        ELSE IF R.cleanedCount > 0
        THEN [idx |-> R.idx, stats |-> stats, fs |-> R.fs,
              snap |-> saveCacheIndex(R.idx, stats),
              cleanedCount |-> R.cleanedCount, cleanedSize |-> R.cleanedSize]
        ELSE [idx |-> S.idx, stats |-> S.stats, fs |-> S.fs, snap |-> S.snap,
              cleanedCount |-> 0, cleanedSize |-> 0]

\* cleanup(): the expiry sweep, then the size sweep on what it left
cleanup(S, cfg, t) ==
    LET expiredResult == cleanupExpired(S, t)
        oversizedResult == cleanupOversized(
            [idx |-> expiredResult.idx, stats |-> expiredResult.stats,
             fs |-> expiredResult.fs, snap |-> expiredResult.snap], cfg)
    IN  [idx |-> oversizedResult.idx, stats |-> oversizedResult.stats,
         fs |-> oversizedResult.fs, snap |-> oversizedResult.snap,
         totalCleaned |-> expiredResult.cleanedCount + oversizedResult.cleanedCount,
         totalSize |-> expiredResult.cleanedSize + oversizedResult.cleanedSize,
         remaining |-> oversizedResult.stats.totalFiles]

\* the loop of clear over the entries of the index
RECURSIVE clearLoop(_, _)
clearLoop(entries, R) ==
    IF entries = <<>> THEN R
    ELSE LET cacheKey == Head(entries).cacheKey
         IN  IF cacheKey \in DOMAIN R.fs
             THEN clearLoop(Tail(entries),
                      [fs |-> Unlink(R.fs, cacheKey), deletedCount |-> R.deletedCount + 1])
             ELSE clearLoop(Tail(entries), R)

\* clear()
clear(S, t) ==
    LET R == clearLoop(S.idx, [fs |-> S.fs, deletedCount |-> 0])
        stats == [InitialStats EXCEPT !.lastCleanup = <<t>>]
    IN  [idx |-> <<>>, stats |-> stats, fs |-> R.fs, snap |-> saveCacheIndex(<<>>, stats),
         deletedCount |-> R.deletedCount]

\* the constructor: initializeCache() loads the snapshot and recomputes the totals
initializeCache(snap) ==
    LET loaded == loadCacheIndex(snap)
    IN  [idx |-> loaded.index, stats |-> updateCacheStats(loaded.index, loaded.stats)]

(***************************************************************************)
(* Actions: one per public operation, called on manager m with keys of K.  *)
(***************************************************************************)
\* what manager m sees: its own index and stats, and the cache directory
StateOf(m) == [idx |-> cacheIndex[m], stats |-> cacheStats[m], fs |-> blobs, snap |-> snapshot]

\* manager m and the directory after an operation that left R; wrote is <<>>, or
\* <<key, value>> after a successful set.  stored and lastSet follow the blobs.
Becomes(m, R, wrote) ==
    /\ cacheIndex' = [cacheIndex EXCEPT ![m] = R.idx]
    /\ cacheStats' = [cacheStats EXCEPT ![m] = R.stats]
    /\ blobs' = R.fs
    /\ snapshot' = R.snap
    /\ stored' = [ck \in CacheKeys |->
                    IF ck \notin DOMAIN R.fs THEN <<>>
                    ELSE IF wrote # <<>> /\ generateCacheKey(wrote[1]) = ck THEN <<wrote[2]>>
                    ELSE stored[ck]]
    /\ lastSet' = [k \in Keys |->
                    IF generateCacheKey(k) \notin DOMAIN R.fs THEN <<>>
                    ELSE IF wrote # <<>> /\ wrote[1] = k THEN <<wrote[2]>>
                    ELSE lastSet[k]]

\* the options a caller passes to set: none, or a ttl
Options == {<<>>} \cup {<<n>> : n \in 0..MaxTtl}

\* set called with a key of K and options of O; write is what the blob write does
Set(m, K, O, write) ==
    \E key \in K, data \in Values, options \in O :
        LET R == set(StateOf(m), config[m], cipherAvailable, now, key, data, options, write)
        IN  /\ Becomes(m, R, IF R.ok THEN <<key, data>> ELSE <<>>)
            /\ UNCHANGED <<config, now, cipherAvailable, backupDir, syncVars, toolVars>>

Get(m, K) ==
    \E key \in K :
        /\ cacheStats[m].hits + cacheStats[m].misses < MaxGets
        /\ Becomes(m, get(StateOf(m), config[m], cipherAvailable, now, key), <<>>)
        /\ UNCHANGED <<config, now, cipherAvailable, backupDir, syncVars, toolVars>>

Has(m, K) ==
    \E key \in K :
        /\ Becomes(m, has(StateOf(m), now, key), <<>>)
        /\ UNCHANGED <<config, now, cipherAvailable, backupDir, syncVars, toolVars>>

Delete(m, K) ==
    \E key \in K :
        /\ Becomes(m, delete(StateOf(m), key), <<>>)
        /\ UNCHANGED <<config, now, cipherAvailable, backupDir, syncVars, toolVars>>

CleanupExpired(m) ==
    /\ Becomes(m, cleanupExpired(StateOf(m), now), <<>>)
    /\ UNCHANGED <<config, now, cipherAvailable, backupDir, syncVars, toolVars>>

CleanupOversized(m) ==
    /\ Becomes(m, cleanupOversized(StateOf(m), config[m]), <<>>)
    /\ UNCHANGED <<config, now, cipherAvailable, backupDir, syncVars, toolVars>>

Cleanup(m) ==
    /\ Becomes(m, cleanup(StateOf(m), config[m], now), <<>>)
    /\ UNCHANGED <<config, now, cipherAvailable, backupDir, syncVars, toolVars>>

Clear(m) ==
    /\ Becomes(m, clear(StateOf(m), now), <<>>)
    /\ UNCHANGED <<config, now, cipherAvailable, backupDir, syncVars, toolVars>>

\* new OfflineCacheManager() on the directory as it is: the process of manager m
\* restarts
Construct(m) ==
    LET R == initializeCache(snapshot)
    IN  /\ cacheIndex' = [cacheIndex EXCEPT ![m] = R.idx]
        /\ cacheStats' = [cacheStats EXCEPT ![m] = R.stats]
        /\ UNCHANGED <<config, blobs, snapshot, now, cipherAvailable, stored, lastSet,
                       backupDir, syncVars, toolVars>>

\* the clock advances
Tick ==
    /\ now < MaxTime
    /\ now' = now + 1
    /\ UNCHANGED <<config, cacheIndex, cacheStats, blobs, snapshot, cipherAvailable,
                   stored, lastSet, backupDir, syncVars, toolVars>>

\* a blob file disappears from the cache directory without the manager's doing
BlobLost ==
    \E ck \in DOMAIN blobs :
        /\ Becomes(1, [StateOf(1) EXCEPT !.fs = Unlink(blobs, ck)], <<>>)
        /\ UNCHANGED <<config, now, cipherAvailable, backupDir, syncVars, toolVars>>

\* the snapshot file is damaged without the manager's doing (a write cut short, a
\* disk error): it is still there and JSON.parse rejects it
SnapshotCorrupted ==
    /\ snapshot # <<>>
    /\ snapshot[1].parses
    /\ snapshot' = <<[snapshot[1] EXCEPT !.parses = FALSE]>>
    /\ UNCHANGED <<config, cacheIndex, cacheStats, blobs, now, cipherAvailable, stored,
                   lastSet, backupDir, syncVars, toolVars>>

\* the snapshot file disappears from the cache directory
SnapshotLost ==
    /\ snapshot # <<>>
    /\ snapshot' = <<>>
    /\ UNCHANGED <<config, cacheIndex, cacheStats, blobs, now, cipherAvailable, stored,
                   lastSet, backupDir, syncVars, toolVars>>

(***************************************************************************)
(* DataBackup of scripts/backup-data.js: the local backup directory.  A    *)
(* file name is its base, the sequence of the parts that "-" separates,    *)
(* and the timestamp that follows; the ".json" suffix, which every file    *)
(* has, is left out.                                                       *)
(***************************************************************************)
\* config.maxBackups, with MAX_BACKUPS=2 in the environment
MaxBackups == 2

\* config.dataFile, 'ip-records.json'
dataFile == <<"ip", "records">>

\* the prefix cleanupLocalBackups and listBackups look for, 'ip-records-backup-'
BackupPrefix == <<"ip", "records", "backup">>

\* file.startsWith(prefix); the timestamp begins with a digit and matches no part
\* of a prefix
startsWith(file, prefix) ==
    /\ Len(file.base) >= Len(prefix)
    /\ SubSeq(file.base, 1, Len(prefix)) = prefix

\* `${baseFileName}-${timestamp}.json` of createLocalBackup
backupFileName(fileName, t) == [base |-> fileName, timestamp |-> t]

\* createLocalBackup(data) at time t: the file is written and its mtime is t
createLocalBackup(dir, fileName, t) == WriteFile(dir, backupFileName(fileName, t), t)

\* the files cleanupLocalBackups considers
backupFiles(dir) == {f \in DOMAIN dir : startsWith(f, BackupPrefix)}

\* cleanupLocalBackups(): of the files it considers, sorted by mtime descending, those
\* after the first maxBackups are unlinked
cleanupLocalBackups(dir, maxBackups) ==
    LET files == backupFiles(dir)
        newer(f) == {g \in files : dir[g] > dir[f]}
        filesToDelete == {f \in files : Cardinality(newer(f)) >= maxBackups}
    IN  [f \in (DOMAIN dir) \ filesToDelete |-> dir[f]]

\* backup() at time t; token is whether GITHUB_TOKEN is set and github whether
\* createGitHubBackup succeeds.  The run is completed when it reaches the end of the
\* try block; otherwise the process exits with status 1.
backup(dir, t, token, github) ==
    IF ~token THEN [dir |-> dir, completed |-> FALSE]
    ELSE LET written == createLocalBackup(dir, dataFile, t)
         IN  IF ~github THEN [dir |-> written, completed |-> FALSE]
             ELSE [dir |-> cleanupLocalBackups(written, MaxBackups), completed |-> TRUE]

\* one run of the backup script
Backup(token, github) ==
    /\ backupDir' = backup(backupDir, now, token, github).dir
    /\ UNCHANGED <<config, cacheIndex, cacheStats, blobs, snapshot, now, cipherAvailable,
                   stored, lastSet, syncVars, toolVars>>

\* a file named ip-records-backup-<timestamp>.json is put in the directory by
\* something else than createLocalBackup
PrefixedFileWritten ==
    /\ backupFileName(BackupPrefix, now) \notin DOMAIN backupDir
    /\ backupDir' = WriteFile(backupDir, backupFileName(BackupPrefix, now), now)
    /\ UNCHANGED <<config, cacheIndex, cacheStats, blobs, snapshot, now, cipherAvailable,
                   stored, lastSet, syncVars, toolVars>>

(***************************************************************************)
(* CrossPlatformSync of scripts/validate-data.js.  A file content is        *)
(* [kind, body]: a JSON array with its items, a JSON object with its        *)
(* <<key, value>> properties in order, or a text JSON.parse rejects.        *)
(***************************************************************************)
\* the runs of performSync the periodic process starts
MaxSyncs == 2

\* 5 * 60 * 1000 ms, the window of detectConflict, in ticks of the clock
ConflictWindow == 2

\* config.syncInterval, 5 * 60 * 1000 ms, in ticks of the clock
SyncInterval == 2

\* config.dataFile and config.configFile
syncDataFile == "ip-records.json"

syncConfigFile == "src/config.js"

\* filesToSync of performSync
filesToSync == <<syncDataFile, syncConfigFile>>

SyncFileNames == {syncDataFile, syncConfigFile}

\* fileName.endsWith('.json')
endsWithJson(fileName) == fileName = syncDataFile

ArrayOf(items) == [kind |-> "array", body |-> items]

ObjectOf(props) == [kind |-> "object", body |-> props]

TextOf(text) == [kind |-> "text", body |-> <<text>>]

\* the contents a device writes into the data file
SyncContents ==
    {ArrayOf(<<0>>), ArrayOf(<<1, 0>>), ObjectOf(<<<<"a", 1>>>>), ObjectOf(<<<<"b", 2>>, <<"a", 0>>>>),
     TextOf("x")}

\* the contents of the specification of the periodic sync
ArrayContents == {ArrayOf(<<0>>), ArrayOf(<<1, 0>>)}

\* the conflict strategies
Strategies == {"merge", "local", "remote"}

\* whether JSON.parse(content) returns
parsesAsJson(content) == content.kind # "text"

\* the truth value JavaScript gives an item: the number 0 is falsy
truthy(item) == item # 0

\* merged.find(local => JSON.stringify(local) === JSON.stringify(item)): <<>> for
\* undefined, else <<the first item found>>
find(merged, item) ==
    LET found == {i \in 1..Len(merged) : merged[i] = item}
    IN  IF found = {} THEN <<>>
        ELSE <<merged[CHOOSE i \in found : \A j \in found : i <= j]>>

\* remoteData.forEach(item => { if (!merged.find(...)) merged.push(item) })
RECURSIVE pushMissing(_, _)
pushMissing(merged, remoteData) ==
    IF remoteData = <<>> THEN merged
    ELSE LET item == Head(remoteData)
             found == find(merged, item)
             notFound == found = <<>> \/ ~truthy(found[1])
         IN  pushMissing(IF notFound THEN Append(merged, item) ELSE merged, Tail(remoteData))

\* the own enumerable properties the spread {...data} copies: those of an object, or
\* the indices of an array
IndexKeys == <<"0", "1", "2", "3", "4", "5", "6", "7">>

ownProperties(data) ==
    IF data.kind = "object" THEN data.body
    ELSE [i \in 1..Len(data.body) |-> <<IndexKeys[i], data.body[i]>>]

\* {...target, ...source}: a property of source replaces the value of the property
\* of the same key where it is, or is added at the end
RECURSIVE spread(_, _)
spread(target, source) ==
    IF source = <<>> THEN target
    ELSE LET p == Head(source)
             at == {i \in 1..Len(target) : target[i][1] = p[1]}
         IN  spread(IF at = {} THEN Append(target, p)
                    ELSE [i \in 1..Len(target) |-> IF i \in at THEN p ELSE target[i]],
                    Tail(source))

\* mergeContent(fileName, localContent, remoteContent)
mergeContent(fileName, localContent, remoteContent) ==
    IF ~endsWithJson(fileName) THEN localContent
    ELSE IF ~parsesAsJson(localContent) \/ ~parsesAsJson(remoteContent) THEN localContent
    ELSE IF localContent.kind = "array" /\ remoteContent.kind = "array"
    THEN ArrayOf(pushMissing(localContent.body, remoteContent.body))
    ELSE ObjectOf(spread(spread(<<>>, ownProperties(remoteContent)),
                         ownProperties(localContent)))

\* detectConflict with a bug: a difference of exactly the window is a conflict
detectConflictInclusive(localFile, remoteFile) ==
    LET timeDiff == IF localFile.lastModified >= remoteFile.lastModified
                    THEN localFile.lastModified - remoteFile.lastModified
                    ELSE remoteFile.lastModified - localFile.lastModified
    IN  localFile.content # remoteFile.content /\ timeDiff <= ConflictWindow

\* detectConflict(localFile, remoteFile), both present
detectConflict(localFile, remoteFile) ==
    LET timeDiff == IF localFile.lastModified >= remoteFile.lastModified
                    THEN localFile.lastModified - remoteFile.lastModified
                    ELSE remoteFile.lastModified - localFile.lastModified
        hasContentDiff == localFile.content # remoteFile.content
        isRecentChange == timeDiff < ConflictWindow
    IN  hasContentDiff /\ isRecentChange

\* resolveConflict(fileName, localFile, remoteFile): the resolved content and the
\* conflict log with the entry pushed
resolveConflict(fileName, localFile, remoteFile, strategy, log) ==
    LET conflict == [fileName |-> fileName, resolution |-> strategy]
        resolvedContent ==
            IF strategy = "local" THEN localFile.content
            ELSE IF strategy = "remote" THEN remoteFile.content
            ELSE mergeContent(fileName, localFile.content, remoteFile.content)
    IN  [content |-> resolvedContent, conflictLog |-> Append(log, conflict)]

\* the sha GitHub gives a file: the hash of its content
shaOf(content) == <<"sha", content>>

\* getGitHubFile(fileName) on the repository file, at time t; ok is whether the
\* request succeeds.  <<>> is null.  A response without a commit date gets Date.now().
getGitHubFile(remote, ok, t) ==
    IF ~ok \/ remote = <<>> THEN <<>>
    ELSE <<[content |-> remote[1].content, sha |-> remote[1].sha,
            lastModified |-> IF remote[1].date = <<>> THEN t ELSE remote[1].date[1]]>>

\* updateGitHubFile with a bug: it reports success and the repository is not changed
updateGitHubFileNoWrite(remote, content, sha, ok, t) ==
    LET accepted == /\ ok
                    /\ IF remote = <<>> THEN sha = <<>> ELSE sha = <<remote[1].sha>>
    IN  [remote |-> remote, result |-> accepted]

\* updateGitHubFile(fileName, content, sha, message) at time t; ok is whether the
\* request reaches GitHub, which accepts it when sha is the sha of the file it has
\* (<<>>, null, for a file it does not have).  result is FALSE for null.
updateGitHubFile(remote, content, sha, ok, t) ==
    LET accepted == /\ ok
                    /\ IF remote = <<>> THEN sha = <<>> ELSE sha = <<remote[1].sha>>
    IN  [remote |-> IF accepted
                    THEN <<[content |-> content, sha |-> shaOf(content), date |-> <<t>>]>>
                    ELSE remote,
         result |-> accepted]

\* fs.writeFileSync of a working-directory file at time t
writeLocal(content, t) == <<[content |-> content, lastModified |-> t]>>

\* syncFile from the return of getGitHubFile up to its return or its await of
\* updateGitHubFile: the local file as it leaves it, the conflict log, the pending
\* update (<<>> when it returns at once) and the result it returns or will return
\* when the update succeeds
syncFileFetched(fileName, localFile, localNow, remoteFile, strategy, log, t) ==
    LET keep == [local |-> localNow, log |-> log, put |-> <<>>]
    IN  IF localFile = <<>> /\ remoteFile = <<>>
        THEN keep @@ [success |-> FALSE, action |-> "none"]
        ELSE IF localFile = <<>>
        THEN [keep EXCEPT !.local = writeLocal(remoteFile[1].content, t)]
                 @@ [success |-> TRUE, action |-> "download"]
        ELSE IF remoteFile = <<>>
        THEN [keep EXCEPT !.put = <<[content |-> localFile[1].content, sha |-> <<>>]>>]
                 @@ [success |-> TRUE, action |-> "upload"]
        ELSE IF localFile[1].content = remoteFile[1].content
        THEN keep @@ [success |-> TRUE, action |-> "no_change"]
        ELSE IF detectConflict(localFile[1], remoteFile[1])
        THEN LET R == resolveConflict(fileName, localFile[1], remoteFile[1], strategy, log)
             IN  [local |-> writeLocal(R.content, t), log |-> R.conflictLog,
                  put |-> <<[content |-> R.content, sha |-> <<remoteFile[1].sha>>]>>,
                  success |-> TRUE, action |-> "conflict_resolved"]
        ELSE IF localFile[1].lastModified > remoteFile[1].lastModified
        THEN [keep EXCEPT !.put = <<[content |-> localFile[1].content,
                                     sha |-> <<remoteFile[1].sha>>]>>]
                 @@ [success |-> TRUE, action |-> "sync_upload"]
        ELSE [keep EXCEPT !.local = writeLocal(remoteFile[1].content, t)]
                 @@ [success |-> TRUE, action |-> "sync_download"]

\* syncFile(fileName) when nothing else touches the files during the call: getOk
\* and putOk are whether the two requests succeed
syncFile(fileName, local, remote, strategy, log, t, getOk, putOk) ==
    LET F == syncFileFetched(fileName, local, local, getGitHubFile(remote, getOk, t),
                             strategy, log, t)
        U == updateGitHubFile(remote, F.put[1].content, F.put[1].sha, putOk, t)
    IN  IF F.put = <<>>
        THEN [local |-> F.local, remote |-> remote, conflictLog |-> F.log,
              success |-> F.success, action |-> F.action]
        ELSE [local |-> F.local, remote |-> U.remote, conflictLog |-> F.log,
              success |-> U.result, action |-> IF U.result THEN F.action ELSE "none"]

\* a performSync execution at the getGitHubFile of its first file, after
\* getLocalFileInfo
newRun ==
    [i |-> 1, await |-> "get", localFile |-> localFiles[filesToSync[1]], put |-> <<>>,
     results |-> <<>>]

RemoveAt(runs, r) == SubSeq(runs, 1, r - 1) \o SubSeq(runs, r + 1, Len(runs))

\* syncFile of run r returns success: performSync pushes the result and goes on with
\* the next file, or pushes its record to syncHistory and returns
Returned(r, success, log) ==
    LET run == syncRuns[r]
        results == Append(run.results, success)
    IN  IF run.i < Len(filesToSync)
        THEN /\ syncRuns' = [syncRuns EXCEPT ![r] =
                                [i |-> run.i + 1, await |-> "get",
                                 localFile |-> localFiles[filesToSync[run.i + 1]],
                                 put |-> <<>>, results |-> results]]
             /\ UNCHANGED syncHistory
        ELSE /\ syncRuns' = RemoveAt(syncRuns, r)
             /\ syncHistory' = Append(syncHistory, [results |-> results,
                                                    conflicts |-> Len(log)])

\* startPeriodicSync(): performSync is called, not awaited, and the timer is set
StartPeriodicSync ==
    /\ syncTimer = <<>>
    /\ syncRuns' = Append(syncRuns, newRun)
    /\ syncTimer' = <<now + SyncInterval>>
    /\ UNCHANGED <<localFiles, remoteFiles, conflictResolution, conflictLog, syncHistory>>
    /\ UNCHANGED <<cacheVars, now, toolVars>>

\* the setInterval callback: performSync is called, not awaited
TimerFires ==
    /\ syncTimer # <<>>
    /\ now >= syncTimer[1]
    /\ Len(syncHistory) + Len(syncRuns) < MaxSyncs
    /\ syncRuns' = Append(syncRuns, newRun)
    /\ syncTimer' = <<syncTimer[1] + SyncInterval>>
    /\ UNCHANGED <<localFiles, remoteFiles, conflictResolution, conflictLog, syncHistory>>
    /\ UNCHANGED <<cacheVars, now, toolVars>>

\* the getGitHubFile a run awaits returns, with the file or (ok = FALSE) with null,
\* and syncFile goes on to its return or to its await of updateGitHubFile
GetReturns(ok) ==
    \E r \in 1..Len(syncRuns) :
        LET run == syncRuns[r]
            f == filesToSync[run.i]
            F == syncFileFetched(f, run.localFile, localFiles[f],
                                 getGitHubFile(remoteFiles[f], ok, now),
                                 conflictResolution, conflictLog, now)
        IN  /\ run.await = "get"
            /\ localFiles' = [localFiles EXCEPT ![f] = F.local]
            /\ conflictLog' = F.log
            /\ IF F.put # <<>>
               THEN /\ syncRuns' = [syncRuns EXCEPT ![r] =
                                       [run EXCEPT !.await = "put", !.put = F.put]]
                    /\ UNCHANGED syncHistory
               ELSE Returned(r, F.success, F.log)
            /\ UNCHANGED <<remoteFiles, conflictResolution, syncTimer>>
            /\ UNCHANGED <<cacheVars, now, toolVars>>

\* the updateGitHubFile a run awaits returns, and syncFile returns
PutReturns(ok) ==
    \E r \in 1..Len(syncRuns) :
        LET run == syncRuns[r]
            f == filesToSync[run.i]
            U == updateGitHubFile(remoteFiles[f], run.put[1].content, run.put[1].sha, ok, now)
        IN  /\ run.await = "put"
            /\ remoteFiles' = [remoteFiles EXCEPT ![f] = U.remote]
            /\ Returned(r, U.result, conflictLog)
            /\ UNCHANGED <<localFiles, conflictResolution, conflictLog, syncTimer>>
            /\ UNCHANGED <<cacheVars, now, toolVars>>

\* the user of this device writes content c of C into file f of F
LocalEdited(F, C) ==
    \E f \in F, c \in C :
        /\ localFiles' = [localFiles EXCEPT ![f] = writeLocal(c, now)]
        /\ UNCHANGED <<remoteFiles, conflictResolution, conflictLog, syncHistory, syncRuns,
                       syncTimer>>
        /\ UNCHANGED <<cacheVars, now, toolVars>>

\* another device commits content c of C to file f of F of the repository
RemoteEdited(F, C) ==
    \E f \in F, c \in C, date \in {<<>>, <<now>>} :
        /\ remoteFiles' = [remoteFiles EXCEPT ![f] =
                              <<[content |-> c, sha |-> shaOf(c), date |-> date]>>]
        /\ UNCHANGED <<localFiles, conflictResolution, conflictLog, syncHistory, syncRuns,
                       syncTimer>>
        /\ UNCHANGED <<cacheVars, now, toolVars>>

\* the application sets config.conflictResolution
StrategyChosen ==
    \E strategy \in Strategies \ {conflictResolution} :
        /\ conflictResolution' = strategy
        /\ UNCHANGED <<localFiles, remoteFiles, conflictLog, syncHistory, syncRuns, syncTimer>>
        /\ UNCHANGED <<cacheVars, now, toolVars>>

(***************************************************************************)
(* DataValidator.  What the repository gives for a supported file is        *)
(* [fetched, errors, warnings]: whether getFileContent returns (it throws   *)
(* on an API error and on a data file JSON.parse rejects), and how many     *)
(* errors and warnings the validation functions find in it.                 *)
(***************************************************************************)
\* the errors, and the warnings, the validation of one file finds
MaxErrors == 1

\* this.supportedFiles: config.dataFile, then config.configFile
supportedFiles == <<"ip-records.json", "src/config.js">>

\* what the repository can give for one file
FileInputs == [fetched : BOOLEAN, errors : 0..MaxErrors, warnings : 0..MaxErrors]

\* generateReport(data, fileInfo) of DataValidator: totalErrors === 0, a boolean
validatorGenerateReport(file) == [type |-> "boolean", value |-> file.errors = 0]

\* validateSingleFile(fileName): the boolean of generateReport for a JSON file, a
\* result object for a .js file, and a result object with the message of the error
\* when getFileContent throws
validateSingleFile(fileName, file) ==
    IF ~file.fetched
    THEN [type |-> "object", isValid |-> FALSE, errors |-> 1, warnings |-> 0]
    ELSE IF fileName = "ip-records.json" THEN validatorGenerateReport(file)
    ELSE [type |-> "object", isValid |-> file.errors = 0, errors |-> file.errors,
          warnings |-> file.warnings]

\* result.isValid taken as a condition: undefined, which is falsy, on a boolean
isValid(result) == result.type = "object" /\ result.isValid

\* validateAllFiles(): the results, or throws = TRUE when result.errors.forEach is
\* called on a result that has no errors property
RECURSIVE validateAllFiles(_, _, _)
validateAllFiles(files, i, results) ==
    IF i > Len(supportedFiles) THEN [throws |-> FALSE, results |-> results]
    ELSE LET result == validateSingleFile(supportedFiles[i], files[i])
         IN  IF ~isValid(result) /\ result.type # "object"
             THEN [throws |-> TRUE, results |-> results]
             ELSE validateAllFiles(files, i + 1, Append(results, result))

RECURSIVE totalErrorsOf(_)
totalErrorsOf(results) ==
    IF results = <<>> THEN 0
    ELSE (IF Head(results).type = "object" THEN Head(results).errors ELSE 0)
             + totalErrorsOf(Tail(results))

\* validate(): the exit status of the process
validate(input) ==
    LET R == validateAllFiles(input.files, 1, <<>>)
        totalFiles == Len(R.results)
        validFiles == Cardinality({i \in 1..Len(R.results) : isValid(R.results[i])})
    IN  IF ~input.token \/ R.throws THEN 1
        ELSE IF validFiles = totalFiles /\ totalErrorsOf(R.results) = 0 THEN 0
        ELSE 1

\* the repository, or GITHUB_TOKEN, changes between two runs of the validator
RepositoryChanged ==
    \E token \in BOOLEAN, data \in FileInputs, cfg \in FileInputs :
        /\ validatorInput' = [token |-> token, files |-> <<data, cfg>>]
        /\ UNCHANGED <<validatorExit, testResults, testerExit, ipRecords>>
        /\ UNCHANGED <<cacheVars, now, syncVars>>

\* one run of validate()
Validate ==
    /\ validatorExit' = <<validate(validatorInput)>>
    /\ UNCHANGED <<validatorInput, testResults, testerExit, ipRecords>>
    /\ UNCHANGED <<cacheVars, now, syncVars>>

(***************************************************************************)
(* APITester.  testResults holds the success flag of each recorded test.   *)
(***************************************************************************)
\* the tests runAllTests awaits, each recording one result
NumberOfTests == 6

\* a JavaScript number, and the string toFixed(1) makes of one, in tenths
NumberValue(tenths) == [type |-> "number", tenths |-> tenths]

toFixed1(tenths) == [type |-> "string", tenths |-> tenths]

\* a === b
strictEquals(a, b) == a.type = b.type /\ a.tenths = b.tenths

\* generateReport() of APITester: successRate is ((successCount / totalCount) *
\* 100).toFixed(1), rounded to tenths, and the result is successRate === 100
generateReport(results) ==
    LET successCount == Cardinality({i \in 1..Len(results) : results[i]})
        totalCount == Len(results)
        successRate == toFixed1((2000 * successCount + totalCount) \div (2 * totalCount))
    IN  strictEquals(successRate, NumberValue(1000))

\* the test runAllTests awaits returns and has recorded its result
TestReturns ==
    \E success \in BOOLEAN :
        /\ testerExit = <<>>
        /\ Len(testResults) < NumberOfTests
        /\ testResults' = Append(testResults, success)
        /\ UNCHANGED <<validatorInput, validatorExit, testerExit, ipRecords>>
        /\ UNCHANGED <<cacheVars, now, syncVars>>

\* the end of runAllTests(): generateReport() and process.exit
TestsReported ==
    /\ testerExit = <<>>
    /\ Len(testResults) = NumberOfTests
    /\ testerExit' = <<IF generateReport(testResults) THEN 0 ELSE 1>>
    /\ UNCHANGED <<validatorInput, validatorExit, testResults, ipRecords>>
    /\ UNCHANGED <<cacheVars, now, syncVars>>

(***************************************************************************)
(* CleanupService of scripts/backup-data.js.  A record is [timestamp,      *)
(* cleaned]: cleaned when its ip, country, timezone, userAgent and         *)
(* countryCode are "[已清理]".                                              *)
(***************************************************************************)
\* the records of the data file
MaxRecords == 3

\* the remote writes of the cleanup
MaxCleanups == 3

\* CONFIG.retentionDays, 15 days, in ticks of the clock
RetentionDays == 1

\* cleanExpiredRecords(records) at time t
cleanExpiredRecords(records, t) ==
    LET cutoffDate == t - RetentionDays
        expired == {i \in 1..Len(records) : records[i].timestamp < cutoffDate}
    IN  [validRecords |-> [i \in 1..Len(records) |->
                              IF i \in expired THEN [records[i] EXCEPT !.cleaned = TRUE]
                              ELSE records[i]],
         expiredCount |-> Cardinality(expired),
         totalRecords |-> Len(records)]

\* the content updateFileContent(records, sha, metadata) puts in the repository
updateFileContent(records, metadata, t) ==
    <<[records |-> records,
       metadata |-> [lastCleanup |-> <<t>>, cleanupCount |-> metadata.cleanupCount + 1]]>>

\* performCleanup() at time t; getOk and putOk are whether the two requests succeed
performCleanup(file, t, getOk, putOk) ==
    IF ~getOk THEN [file |-> file, success |-> FALSE, expiredCount |-> 0, wrote |-> FALSE]
    ELSE IF file = <<>>
    THEN [file |-> file, success |-> TRUE, expiredCount |-> 0, wrote |-> FALSE]
    ELSE LET C == cleanExpiredRecords(file[1].records, t)
         IN  IF C.expiredCount = 0
             THEN [file |-> file, success |-> TRUE, expiredCount |-> 0, wrote |-> FALSE]
             ELSE IF ~putOk
             THEN [file |-> file, success |-> FALSE, expiredCount |-> 0, wrote |-> FALSE]
             ELSE [file |-> updateFileContent(C.validRecords, file[1].metadata, t),
                   success |-> TRUE, expiredCount |-> C.expiredCount, wrote |-> TRUE]

\* the site stores a record, creating the data file when it is missing
RecordStored ==
    LET file == IF ipRecords = <<>>
                THEN [records |-> <<>>, metadata |-> [lastCleanup |-> <<>>, cleanupCount |-> 0]]
                ELSE ipRecords[1]
    IN  /\ Len(file.records) < MaxRecords
        /\ ipRecords' = <<[file EXCEPT !.records =
                              Append(@, [timestamp |-> now, cleaned |-> FALSE])]>>
        /\ UNCHANGED <<validatorInput, validatorExit, testResults, testerExit>>
        /\ UNCHANGED <<cacheVars, now, syncVars>>

\* one run of performCleanup()
PerformCleanup(getOk, putOk) ==
    /\ ipRecords # <<>> => ipRecords[1].metadata.cleanupCount < MaxCleanups
    /\ ipRecords' = performCleanup(ipRecords, now, getOk, putOk).file
    /\ UNCHANGED <<validatorInput, validatorExit, testResults, testerExit>>
    /\ UNCHANGED <<cacheVars, now, syncVars>>

(***************************************************************************)
(* Specifications.                                                         *)
(***************************************************************************)
\* this.config as the constructor sets it
DefaultConfig == [maxCacheSize |-> DefaultMaxCacheSize, maxCacheAge |-> DefaultMaxCacheAge,
                  compressionEnabled |-> TRUE, encryptionEnabled |-> FALSE]

NoFiles == [ck \in {} |-> <<>>]

\* the directory is empty and the managers are constructed on it
Fresh ==
    /\ cacheIndex = [m \in Managers |-> initializeCache(<<>>).idx]
    /\ cacheStats = [m \in Managers |-> initializeCache(<<>>).stats]
    /\ blobs = NoFiles
    /\ snapshot = <<>>
    /\ now = 0
    /\ stored = [ck \in CacheKeys |-> <<>>]
    /\ lastSet = [k \in Keys |-> <<>>]
    /\ backupDir = NoFiles
    /\ localFiles = [f \in SyncFileNames |-> <<>>]
    /\ remoteFiles = [f \in SyncFileNames |-> <<>>]
    /\ conflictResolution = "merge"
    /\ conflictLog = <<>>
    /\ syncHistory = <<>>
    /\ syncRuns = <<>>
    /\ syncTimer = <<>>
    /\ validatorInput = [token |-> TRUE,
                         files |-> [i \in 1..Len(supportedFiles) |->
                                       [fetched |-> TRUE, errors |-> 0, warnings |-> 0]]]
    /\ validatorExit = <<>>
    /\ testResults = <<>>
    /\ testerExit = <<>>
    /\ ipRecords = <<>>

Init ==
    /\ config = [m \in Managers |-> DefaultConfig]
    /\ cipherAvailable = TRUE
    /\ Fresh

\* one manager on its directory, no I/O failure
Next ==
    \/ Set(1, CoreKeys, Options, "ok")
    \/ Get(1, CoreKeys)
    \/ Has(1, CoreKeys)
    \/ Delete(1, CoreKeys)
    \/ CleanupExpired(1)
    \/ CleanupOversized(1)
    \/ Cleanup(1)
    \/ Clear(1)
    \/ Construct(1)
    \/ Tick

Spec == Init /\ [][Next]_vars

\* the same manager called with keys that share a cache key, with the default
\* ttl or a ttl of one tick
NextAlias ==
    \/ Set(1, AliasKeys, {<<>>, <<1>>}, "ok")
    \/ Get(1, AliasKeys)
    \/ Delete(1, AliasKeys)
    \/ CleanupOversized(1)
    \/ Tick

SpecAlias == Init /\ [][NextAlias]_vars

\* one manager, with failing blob writes and blob files lost from the directory,
\* all within one tick of the clock
NextFault ==
    \/ Set(1, CoreKeys, {<<1>>}, "ok")
    \/ Set(1, CoreKeys, Options, "fails")
    \/ Set(1, CoreKeys, Options, "torn")
    \/ BlobLost
    \/ Get(1, CoreKeys)
    \/ Delete(1, CoreKeys)
    \/ CleanupOversized(1)
    \/ Construct(1)
    \/ Tick

SpecFault == Init /\ [][NextFault]_vars

\* writes with the default ttl to three cache keys and the size sweep, with blob files lost from the
\* directory
NextEvict ==
    \/ Set(1, EvictKeys, {<<>>}, "ok")
    \/ CleanupOversized(1)
    \/ BlobLost
    \/ Tick

SpecEvict == Init /\ [][NextEvict]_vars

\* the four settings of the codec, with and without crypto.createCipher
CodecConfigs ==
    {[DefaultConfig EXCEPT !.compressionEnabled = c, !.encryptionEnabled = e] :
        c \in BOOLEAN, e \in BOOLEAN}

\* the manager is constructed on an empty directory and the application sets
\* config.compressionEnabled and config.encryptionEnabled before the first call
InitCodec ==
    /\ \E cfg \in CodecConfigs : config = [m \in Managers |-> cfg]
    /\ cipherAvailable \in BOOLEAN
    /\ Fresh

NextCodec ==
    \/ Set(1, {KeyA}, {<<>>}, "ok")
    \/ Get(1, {KeyA})
    \/ Delete(1, {KeyA})
    \/ Construct(1)
    \/ Tick

SpecCodec == InitCodec /\ [][NextCodec]_vars

\* the application changes config.compressionEnabled or config.encryptionEnabled of
\* manager m between two calls
Configure(m) ==
    \E cfg \in CodecConfigs :
        /\ cfg # config[m]
        /\ config' = [config EXCEPT ![m] = cfg]
        /\ UNCHANGED <<cacheIndex, cacheStats, blobs, snapshot, now, cipherAvailable,
                       stored, lastSet, backupDir, syncVars, toolVars>>

\* the process of manager 1 restarts on another Node build, with or without
\* crypto.createCipher and crypto.createDecipher, on the directory as it is
RuntimeChanged ==
    LET R == initializeCache(snapshot)
    IN  /\ cipherAvailable' = ~cipherAvailable
        /\ cacheIndex' = [cacheIndex EXCEPT ![1] = R.idx]
        /\ cacheStats' = [cacheStats EXCEPT ![1] = R.stats]
        /\ UNCHANGED <<config, blobs, snapshot, now, stored, lastSet, backupDir, syncVars, toolVars>>

\* one key written and read while the Node build changes under the cache
NextRuntime ==
    \/ Set(1, {KeyA}, {<<>>}, "ok")
    \/ Get(1, {KeyA})
    \/ Delete(1, {KeyA})
    \/ RuntimeChanged
    \/ Tick

SpecRuntime == InitCodec /\ [][NextRuntime]_vars

\* one key written and read while the application changes the codec settings
NextReconf ==
    \/ Set(1, {KeyA}, {<<>>}, "ok")
    \/ Get(1, {KeyA})
    \/ Delete(1, {KeyA})
    \/ Configure(1)
    \/ Tick

SpecReconf == InitCodec /\ [][NextReconf]_vars

\* one manager restarted on a directory whose snapshot file is damaged or lost
NextLoad ==
    \/ Set(1, CoreKeys, {<<>>}, "ok")
    \/ Get(1, CoreKeys)
    \/ Delete(1, CoreKeys)
    \/ SnapshotCorrupted
    \/ SnapshotLost
    \/ Construct(1)
    \/ Tick

SpecLoad == Init /\ [][NextLoad]_vars

\* writes, has and delete on one manager, with no get
NextWrite ==
    \/ Set(1, CoreKeys, Options, "ok")
    \/ Has(1, CoreKeys)
    \/ Delete(1, CoreKeys)
    \/ Tick

SpecWrite == Init /\ [][NextWrite]_vars

\* writes and the three sweeps on one manager, with no get
NextSweep ==
    \/ Set(1, CoreKeys, Options, "ok")
    \/ CleanupExpired(1)
    \/ CleanupOversized(1)
    \/ Cleanup(1)
    \/ Tick

SpecSweep == Init /\ [][NextSweep]_vars

\* writes with the default ttl, reads and the size sweep on one manager
NextRead ==
    \/ Set(1, CoreKeys, {<<>>}, "ok")
    \/ Get(1, CoreKeys)
    \/ Has(1, CoreKeys)
    \/ CleanupOversized(1)
    \/ Tick

SpecRead == Init /\ [][NextRead]_vars

\* one key written and read while blob writes fail and the application changes
\* the codec settings
NextDecode ==
    \/ Set(1, {KeyA}, {<<>>}, "ok")
    \/ Set(1, {KeyA}, {<<>>}, "torn")
    \/ Get(1, {KeyA})
    \/ Configure(1)
    \/ Tick

SpecDecode == InitCodec /\ [][NextDecode]_vars

\* two managers, each in its own process, on the same cache directory
NextShared ==
    \/ Set(1, {KeyA}, {<<>>}, "ok")
    \/ Set(2, {KeyS1}, {<<>>}, "ok")
    \/ Get(1, {KeyA})
    \/ Get(2, {KeyS1})
    \/ Delete(1, {KeyA})
    \/ Delete(2, {KeyS1})
    \/ Tick

SpecShared == Init /\ [][NextShared]_vars

\* the backup script run again and again on its directory
NextBackup ==
    \/ Backup(TRUE, TRUE)
    \/ Backup(TRUE, FALSE)
    \/ PrefixedFileWritten
    \/ Tick

SpecBackup == Init /\ [][NextBackup]_vars

\* the data file edited on this device and in the repository under the periodic sync
NextSync ==
    \/ StartPeriodicSync
    \/ TimerFires
    \/ GetReturns(TRUE)
    \/ GetReturns(FALSE)
    \/ PutReturns(TRUE)
    \/ PutReturns(FALSE)
    \/ LocalEdited({syncDataFile}, ArrayContents)
    \/ RemoteEdited({syncDataFile}, ArrayContents)
    \/ Tick

SpecSync == Init /\ [][NextSync]_vars

\* the first run of performSync, with requests that fail, while the data file is
\* edited on both sides
NextSyncOnce ==
    \/ StartPeriodicSync
    \/ GetReturns(TRUE)
    \/ GetReturns(FALSE)
    \/ PutReturns(TRUE)
    \/ PutReturns(FALSE)
    \/ LocalEdited({syncDataFile}, ArrayContents)
    \/ RemoteEdited({syncDataFile}, ArrayContents)
    \/ Tick

SpecSyncOnce == Init /\ [][NextSyncOnce]_vars

\* the validator run on every state of the repository
NextValidate ==
    \/ RepositoryChanged
    \/ Validate

SpecValidate == Init /\ [][NextValidate]_vars

\* one run of the API tester
NextTest ==
    \/ TestReturns
    \/ TestsReported

SpecTest == Init /\ [][NextTest]_vars

\* records stored and cleaned as time passes
NextRecords ==
    \/ RecordStored
    \/ PerformCleanup(TRUE, TRUE)
    \/ PerformCleanup(TRUE, FALSE)
    \/ PerformCleanup(FALSE, TRUE)
    \/ Tick

SpecRecords == Init /\ [][NextRecords]_vars

\* one run of performSync on files of every kind of content, under each strategy
NextMerge ==
    \/ StartPeriodicSync
    \/ GetReturns(TRUE)
    \/ PutReturns(TRUE)
    \/ LocalEdited(SyncFileNames, SyncContents)
    \/ RemoteEdited({syncDataFile}, SyncContents)
    \/ StrategyChosen

SpecMerge == Init /\ [][NextMerge]_vars

(***************************************************************************)
(* Properties.  A property of an operation is stated of the call made in   *)
(* the current state: what get, set or a sweep returns and leaves there.   *)
(***************************************************************************)
TheIndex == cacheIndex[1]

TheStats == cacheStats[1]

\* what get(key) returns and leaves in the current state
GetNow(key) == get(StateOf(1), config[1], cipherAvailable, now, key)

\* what cleanupOversized() returns and leaves in the current state
OversizedNow == cleanupOversized(StateOf(1), config[1])

\* key has a live entry: in the index and not expired
Live(key) ==
    /\ MapHas(TheIndex, generateCacheKey(key))
    /\ now <= MapGet(TheIndex, generateCacheKey(key)).expiresAt

\* C1: after any sequence of set, get, has, delete, cleanupExpired,
\* cleanupOversized, cleanup and clear calls (and restarts) of one manager without
\* I/O failure, a cache key is in the index iff its blob file exists, no cache key
\* is in the index twice, and the blob is the one written for the index entry.
C1_IndexBlobConsistency ==
    /\ MapKeys(TheIndex) = DOMAIN blobs
    /\ Cardinality(MapKeys(TheIndex)) = Len(TheIndex)
    /\ \A ck \in DOMAIN blobs :
          ~blobs[ck].torn /\ blobs[ck].metadata = MapGet(TheIndex, ck)

\* C1 witness: one entry is left with its blob after a sweep or a clear removed
\* another and a get missed
C1_Witness ==
    /\ Len(TheIndex) = 1
    /\ DOMAIN blobs = MapKeys(TheIndex)
    /\ TheStats.lastCleanup # <<>>
    /\ TheStats.misses >= 1

\* C2 as stated: for every key k with a live entry, get(k) returns the value of
\* the most recent successful set(k, v) and counts exactly one hit.
C2_LastWriteWinsPerKey ==
    \A k \in Keys :
        (Live(k) /\ lastSet[k] # <<>>) =>
            /\ GetNow(k).val = lastSet[k][1]
            /\ GetNow(k).stats.hits = TheStats.hits + 1

\* C2 amended: for every key k with a live entry, get(k) returns the value of the
\* most recent successful set on the cache key of k (set(k, v) or a set on a key
\* with the same cache key, such as 1 and "1") and counts exactly one hit and no
\* miss.
C2_LastWriteWins ==
    \A k \in Keys :
        Live(k) =>
            /\ stored[generateCacheKey(k)] # <<>>
            /\ GetNow(k).val = stored[generateCacheKey(k)][1]
            /\ GetNow(k).hit
            /\ GetNow(k).stats.hits = TheStats.hits + 1
            /\ GetNow(k).stats.misses = TheStats.misses

\* C2 witness: "1" was set after 1 with another value, a get has hit, and get(1)
\* returns the later value
C2_Witness ==
    /\ lastSet[KeyN1] = <<StrX>>
    /\ lastSet[KeyS1] = <<ObjN>>
    /\ TheStats.hits >= 1
    /\ Live(KeyN1)
    /\ GetNow(KeyN1).val = ObjN

\* C3: an entry written at time t with ttl T has expiresAt = t + T; get(k) at
\* now <= t + T returns the stored value, and at now > t + T it returns null,
\* counts a miss and removes the entry from the index together with its blob.
C3_TtlBoundary ==
    \A k \in Keys :
        MapHas(TheIndex, generateCacheKey(k)) =>
            LET ck == generateCacheKey(k)
                e == MapGet(TheIndex, ck)
                R == GetNow(k)
            IN  IF now <= e.timestamp + e.ttl
                THEN R.hit /\ R.val = stored[ck][1] /\ MapHas(R.idx, ck)
                ELSE /\ ~R.hit
                     /\ R.val = Null
                     /\ R.stats.misses = TheStats.misses + 1
                     /\ R.stats.hits = TheStats.hits
                     /\ ~MapHas(R.idx, ck)
                     /\ ck \notin DOMAIN R.fs

\* C3 witness: an entry of ttl 1 is at its last live tick, and a get before has
\* removed an expired entry (a miss with nothing left of it) and another has hit
C3_Witness ==
    /\ \E i \in 1..Len(TheIndex) :
          TheIndex[i].ttl = 1 /\ now = TheIndex[i].timestamp + 1
    /\ TheStats.hits = 1
    /\ TheStats.misses = 1
    /\ Len(TheIndex) = 1

\* C4: after cleanupOversized() the sizes of the entries left in the index sum to
\* at most maxCacheSize, and every evicted entry was written no later than every
\* entry left.
C4_EvictionOldestFirst ==
    LET R == OversizedNow
    IN  /\ SumSize(R.idx) <= config[1].maxCacheSize
        /\ \A i \in 1..Len(TheIndex), j \in 1..Len(R.idx) :
              ~MapHas(R.idx, TheIndex[i].cacheKey) =>
                  TheIndex[i].timestamp <= R.idx[j].timestamp

\* C4 witness: three entries over the budget, the first of the index not the
\* oldest, of which the sweep evicts one and leaves two
C4_Witness ==
    /\ Len(TheIndex) = 3
    /\ SumSize(TheIndex) > config[1].maxCacheSize
    /\ TheIndex[1].timestamp > TheIndex[2].timestamp
    /\ DOMAIN blobs = MapKeys(TheIndex)
    /\ Len(OversizedNow.idx) = 2
    /\ OversizedNow.cleanedCount = 1

\* the number of entries, oldest first, whose removal first brings the total size
\* of the entries of idx to at most limit
ShortestPrefix(idx, limit) ==
    LET sorted == sortedEntries(idx)
        rest(n) == SumSize(SubSeq(sorted, n + 1, Len(sorted)))
    IN  CHOOSE n \in 0..Len(sorted) :
            /\ rest(n) <= limit
            /\ \A j \in 0..(n - 1) : rest(j) > limit

\* C5: cleanupOversized evicts exactly the shortest oldest-first prefix of the
\* entries whose removal brings the total size of the index entries to at most
\* maxCacheSize, and returns its length; when the total is within the budget it
\* changes nothing and returns zero.
C5_EvictionMinimal ==
    LET R == OversizedNow
        sorted == sortedEntries(TheIndex)
        n == ShortestPrefix(TheIndex, config[1].maxCacheSize)
        evicted == {sorted[i].cacheKey : i \in 1..n}
    IN  /\ R.idx = SelectSeq(TheIndex, LAMBDA e : e.cacheKey \notin evicted)
        /\ R.cleanedCount = n
        /\ n = 0 => (R.stats = TheStats /\ R.fs = blobs /\ R.snap = snapshot)

C7_AggregatesMatchIndex ==
    /\ TheStats.totalSize = SumSize(TheIndex)
    /\ TheStats.totalFiles = Len(TheIndex)

\* C8: after every operation the index stored in the snapshot file is the index
\* in memory, so a manager constructed on the directory loads the same entries.
C8_SnapshotMatchesIndex == initializeCache(snapshot).idx = TheIndex

\* C9: a set whose blob write fails returns false and leaves the index, the stats
\* and the snapshot as they were.
C9_FailedWriteAtomic ==
    \A key \in Keys, data \in Values, options \in Options, write \in {"fails", "torn"} :
        LET R == set(StateOf(1), config[1], cipherAvailable, now, key, data, options, write)
        IN  /\ ~R.ok
            /\ R.idx = TheIndex
            /\ R.stats = TheStats
            /\ R.snap = snapshot

\* C9 witness: a write over a stored entry has failed and left a torn file; the
\* index and the snapshot still hold the entry
C9_Witness ==
    \E ck \in DOMAIN blobs :
        /\ blobs[ck].torn
        /\ MapHas(TheIndex, ck)
        /\ MapHas(initializeCache(snapshot).idx, ck)
        /\ stored[ck] # <<>>

\* C10: under each of the four settings of compressionEnabled and
\* encryptionEnabled, decoding (decrypt, then decompress, by the flags set
\* computes) what set encodes gives the serialized payload back, and get returns
\* the value given to set, with its type.
C10_CodecRoundTrip ==
    /\ \A data \in Values :
          LET metadata == metadataOf(KeyA, data, <<>>, config[1], cipherAvailable, now)
              cacheData == [data |-> encodedOf(data, config[1], cipherAvailable)]
          IN  decodedOf(cacheData, metadata, config[1], cipherAvailable)
                  = processedDataOf(data)
    /\ \A k \in Keys :
          Live(k) => (GetNow(k).hit /\ GetNow(k).val = stored[generateCacheKey(k)][1])

\* C10 witness: with compression and encryption on, an object was stored
\* compressed and encrypted and a get has returned it
C10_Witness ==
    /\ config[1].compressionEnabled /\ config[1].encryptionEnabled
    /\ \E i \in 1..Len(TheIndex) :
          /\ TheIndex[i].isCompressed /\ TheIndex[i].isEncrypted
          /\ TheIndex[i].dataType = "object"
          /\ blobs[TheIndex[i].cacheKey].data.layers = <<"aes", "gz">>
    /\ TheStats.hits >= 1
    /\ Live(KeyA) /\ GetNow(KeyA).val = ObjN

\* the entry of cache key ck is in the index with its blob file readable
Readable(ck) ==
    /\ MapHas(TheIndex, ck)
    /\ ck \in DOMAIN blobs
    /\ ~blobs[ck].torn

\* decoding the blob of ck, a stage that the metadata records and get attempts
\* throws: decipher or gunzip gives back its input
DecodeFails(ck) ==
    LET metadata == MapGet(TheIndex, ck)
        data == blobs[ck].data
        decrypted == decryptData(data, metadata.isEncrypted, config[1], cipherAvailable)
    IN  \/ /\ metadata.isEncrypted /\ config[1].encryptionEnabled
           /\ decrypted = data
        \/ /\ metadata.isCompressed /\ config[1].compressionEnabled
           /\ decompressData(decrypted, metadata.isCompressed, config[1]) = decrypted

\* whether transform layer is among those applied to payload d
HasLayer(d, layer) == \E i \in 1..Len(d.layers) : d.layers[i] = layer

\* C11: when a stage recorded in the metadata of a live entry cannot be reversed
\* at get time (decrypt or decompress fails), get returns null, never the stored
\* bytes still transformed, and counts no hit.
C11_DecodeFailureIsError ==
    \A k \in Keys :
        LET ck == generateCacheKey(k)
        IN  (Live(k) /\ Readable(ck) /\ DecodeFails(ck)) =>
                /\ ~GetNow(k).hit
                /\ GetNow(k).val = Null
                /\ GetNow(k).stats.hits = TheStats.hits

\* C12: the stages get reverses are those of the isCompressed and isEncrypted
\* flags of the entry, whatever compressionEnabled and encryptionEnabled are at
\* read time: the payload of a live entry decodes to the serialized value that
\* was written, and get returns that value.
C12_DecodeByFlagsOnly ==
    \A k \in Keys :
        LET ck == generateCacheKey(k)
        IN  (Live(k) /\ Readable(ck)) =>
                /\ decodedOf(blobs[ck], MapGet(TheIndex, ck), config[1], cipherAvailable)
                       = processedDataOf(stored[ck][1])
                /\ GetNow(k).hit
                /\ GetNow(k).val = stored[ck][1]

CleanupNow == cleanup(StateOf(1), config[1], now)

\* what a second cleanup() right after it returns and leaves
CleanupAgain ==
    cleanup([idx |-> CleanupNow.idx, stats |-> CleanupNow.stats, fs |-> CleanupNow.fs,
             snap |-> CleanupNow.snap], config[1], now)

\* C14: a second cleanup() right after a first, with no write and no clock advance
\* in between, removes no entry, returns totalCleaned = 0 and leaves the index, the
\* blobs, the stats and the snapshot as the first left them.
C14_CleanupIdempotent ==
    /\ CleanupAgain.totalCleaned = 0
    /\ CleanupAgain.totalSize = 0
    /\ CleanupAgain.idx = CleanupNow.idx
    /\ CleanupAgain.fs = CleanupNow.fs
    /\ CleanupAgain.stats = CleanupNow.stats
    /\ CleanupAgain.snap = CleanupNow.snap

\* C14 witness: after an earlier expiry sweep, two live entries are over the budget
\* and the first cleanup() evicts one of them
C14_Witness ==
    /\ TheStats.lastCleanup # <<>>
    /\ Len(TheIndex) = 2
    /\ \A i \in 1..2 : now <= TheIndex[i].expiresAt
    /\ SumSize(TheIndex) > config[1].maxCacheSize
    /\ CleanupNow.totalCleaned = 1
    /\ Len(CleanupNow.idx) = 1

\* C15: get(k) on an index entry whose blob file is missing removes the entry from
\* the index, counts exactly one miss and no hit, returns null, and has(k) is
\* false afterwards.
C15_SelfHeal ==
    \A k \in Keys :
        LET ck == generateCacheKey(k)
            R == GetNow(k)
        IN  (MapHas(TheIndex, ck) /\ ck \notin DOMAIN blobs) =>
                /\ ~MapHas(R.idx, ck)
                /\ R.stats.misses = TheStats.misses + 1
                /\ R.stats.hits = TheStats.hits
                /\ ~R.hit
                /\ R.val = Null
                /\ ~has([idx |-> R.idx, stats |-> R.stats, fs |-> R.fs, snap |-> R.snap],
                        now, k).ok

\* C15 witness: a get has missed, and an entry that is not expired has lost its blob
\* file while the entry of another key still has its own
C15_Witness ==
    /\ TheStats.misses = 1
    /\ TheStats.hits = 0
    /\ Len(TheIndex) = 2
    /\ Cardinality(DOMAIN blobs) = 1
    /\ \E k \in CoreKeys : Live(k) /\ generateCacheKey(k) \notin DOMAIN blobs

\* the manager a constructor call leaves on the directory as it is
Constructed ==
    [idx |-> initializeCache(snapshot).idx, stats |-> initializeCache(snapshot).stats,
     fs |-> blobs, snap |-> snapshot]

\* a manager constructed on an empty directory
FreshManager == [idx |-> <<>>, stats |-> InitialStats, fs |-> NoFiles, snap |-> <<>>]

\* C16: a manager constructed when the snapshot file is missing or unparsable has
\* an empty index with totalFiles = 0 and totalSize = 0, and set, get and delete on
\* it do what they do on a fresh cache: set succeeds and leaves the index, stats
\* and snapshot a fresh cache would have, get of the value just set hits, get of
\* any key before a set misses and delete returns false.
C16_TolerantLoad ==
    (snapshot = <<>> \/ ~snapshot[1].parses) =>
        /\ Constructed.idx = <<>>
        /\ Constructed.stats = InitialStats
        /\ \A key \in Keys :
              /\ ~get(Constructed, config[1], cipherAvailable, now, key).hit
              /\ get(Constructed, config[1], cipherAvailable, now, key).stats
                     = Miss(InitialStats)
              /\ ~delete(Constructed, key).ok
              /\ \A data \in Values :
                    LET W == set(Constructed, config[1], cipherAvailable, now, key, data,
                                 <<>>, "ok")
                        F == set(FreshManager, config[1], cipherAvailable, now, key, data,
                                 <<>>, "ok")
                        G == get([idx |-> W.idx, stats |-> W.stats, fs |-> W.fs,
                                  snap |-> W.snap], config[1], cipherAvailable, now, key)
                    IN  /\ W.ok
                        /\ W.idx = F.idx /\ W.stats = F.stats /\ W.snap = F.snap
                        /\ G.hit /\ G.val = data

\* C16 witness: the snapshot file, with an entry in it, is unparsable; the manager
\* was constructed on it with the blob files still there, and a get has missed
C16_Witness ==
    /\ snapshot # <<>>
    /\ ~snapshot[1].parses
    /\ Len(snapshot[1].index) >= 1
    /\ TheIndex = <<>>
    /\ DOMAIN blobs # {}
    /\ TheStats = Miss(InitialStats)

\* what set(key, data, options) returns and leaves in the current state when the
\* blob write succeeds
SetNow(key, data, options) ==
    set(StateOf(1), config[1], cipherAvailable, now, key, data, options, "ok")

\* C17: set(k, v2) on a key that has an entry leaves exactly one index entry and
\* one blob for the cache key of k, at the place the entry had, with the timestamp,
\* ttl, expiresAt, size and codec flags of this set; the index does not grow, the
\* other entries are as they were, and an entry that had expired is live again.
C17_OverwriteInPlace ==
    \A k \in Keys, data \in Values, options \in Options :
        LET ck == generateCacheKey(k)
            R == SetNow(k, data, options)
            at == {i \in 1..Len(R.idx) : R.idx[i].cacheKey = ck}
        IN  MapHas(TheIndex, ck) =>
                /\ Len(R.idx) = Len(TheIndex)
                /\ Cardinality(at) = 1
                /\ \A i \in 1..Len(TheIndex) :
                      IF i \in at THEN TheIndex[i].cacheKey = ck ELSE R.idx[i] = TheIndex[i]
                /\ DOMAIN R.fs = DOMAIN blobs \cup {ck}
                /\ R.fs[ck].metadata = MapGet(R.idx, ck)
                /\ R.fs[ck].data = encodedOf(data, config[1], cipherAvailable)
                /\ MapGet(R.idx, ck).timestamp = now
                /\ MapGet(R.idx, ck).ttl = ttlOf(options, config[1])
                /\ MapGet(R.idx, ck).expiresAt = now + ttlOf(options, config[1])
                /\ MapGet(R.idx, ck).size = byteLength(R.fs[ck].data)
                /\ MapGet(R.idx, ck).isCompressed = HasLayer(R.fs[ck].data, "gz")
                /\ MapGet(R.idx, ck).isEncrypted = HasLayer(R.fs[ck].data, "aes")
                /\ now <= MapGet(R.idx, ck).expiresAt

\* C17 witness: the first entry of the index was overwritten after the second was
\* written, and the second has expired and is still in the index
C17_Witness ==
    /\ Len(TheIndex) = 2
    /\ TheIndex[1].timestamp > TheIndex[2].timestamp
    /\ now > TheIndex[2].expiresAt
    /\ now <= TheIndex[1].expiresAt
    /\ DOMAIN blobs = MapKeys(TheIndex)

\* C18: the entry of every successful set has expiresAt = timestamp + ttl, where
\* ttl is options.ttl whenever the caller gives one, 0 included, and maxCacheAge
\* only when the caller gives none.
C18_ExpiryTime ==
    \A k \in Keys, data \in Values, options \in Options :
        LET e == MapGet(SetNow(k, data, options).idx, generateCacheKey(k))
        IN  /\ e.expiresAt = e.timestamp + e.ttl
            /\ e.ttl = IF options = <<>> THEN config[1].maxCacheAge ELSE options[1]

\* what has(key) returns and leaves in the current state
HasNow(key) == has(StateOf(1), now, key)

\* C19: has(k) returns true iff the index holds an entry for k with
\* now <= expiresAt; on an expired entry it removes the entry from the index with
\* its blob and returns false; otherwise it changes nothing; it never changes hits
\* or misses, and its answer does not depend on the blob.
C19_Has ==
    \A k \in Keys :
        LET ck == generateCacheKey(k)
            R == HasNow(k)
        IN  /\ R.ok <=> Live(k)
            /\ R.stats.hits = TheStats.hits /\ R.stats.misses = TheStats.misses
            /\ (MapHas(TheIndex, ck) /\ ~Live(k)) =>
                   (~MapHas(R.idx, ck) /\ ck \notin DOMAIN R.fs)
            /\ (~MapHas(TheIndex, ck) \/ Live(k)) =>
                   (R.idx = TheIndex /\ R.fs = blobs /\ R.stats = TheStats
                    /\ R.snap = snapshot)
            /\ \A fs \in {blobs, NoFiles} :
                   has([StateOf(1) EXCEPT !.fs = fs], now, k).ok = R.ok

\* C19 witness: has is true for one key and, for another whose entry has expired,
\* false with the entry removed
C19_Witness ==
    /\ \E k \in CoreKeys : HasNow(k).ok
    /\ \E k \in CoreKeys :
          /\ MapHas(TheIndex, generateCacheKey(k))
          /\ generateCacheKey(k) \in DOMAIN blobs
          /\ ~HasNow(k).ok
          /\ Len(HasNow(k).idx) = 1

\* what delete(key) returns and leaves in the current state
DeleteNow(key) == delete(StateOf(1), key)

\* C20: delete(k) returns true iff the index holds an entry for k; after it
\* returns true the entry is not in the index and its blob does not exist; when
\* nothing is stored for k it returns false and leaves the index, the blobs, the
\* stats and the snapshot as they were.
C20_Delete ==
    \A k \in Keys :
        LET ck == generateCacheKey(k)
            R == DeleteNow(k)
        IN  /\ R.ok <=> MapHas(TheIndex, ck)
            /\ R.ok => /\ ~MapHas(R.idx, ck)
                       /\ ck \notin DOMAIN R.fs
                       /\ Len(R.idx) = Len(TheIndex) - 1
            /\ ~R.ok => /\ R.idx = TheIndex /\ R.fs = blobs
                        /\ R.stats = TheStats /\ R.snap = snapshot

\* C20 witness: a delete has removed the only entry (the snapshot holds an empty
\* index and no get or sweep has run), and a delete now returns false
C20_Witness ==
    /\ TheIndex = <<>>
    /\ blobs = NoFiles
    /\ snapshot # <<>>
    /\ snapshot[1].index = <<>>
    /\ TheStats = InitialStats
    /\ \A k \in CoreKeys : ~DeleteNow(k).ok

\* what clear() returns and leaves in the current state
ClearNow == clear(StateOf(1), now)

\* C21: clear() leaves the index empty, no blob of an entry in the cache directory
\* and totalSize = totalFiles = hits = misses = 0, and returns the number of
\* entries the index held before the call.
C21_Clear ==
    /\ ClearNow.idx = <<>>
    /\ \A ck \in MapKeys(TheIndex) : ck \notin DOMAIN ClearNow.fs
    /\ ClearNow.stats.totalSize = 0 /\ ClearNow.stats.totalFiles = 0
    /\ ClearNow.stats.hits = 0 /\ ClearNow.stats.misses = 0
    /\ ClearNow.deletedCount = Len(TheIndex)

\* the manager as an operation that returned R leaves it
After(R) == [idx |-> R.idx, stats |-> R.stats, fs |-> R.fs, snap |-> R.snap]

C23_EvictionIsLRU ==
    \A k1 \in Keys, k2 \in Keys :
        LET G1 == GetNow(k1)
            G2 == get(After(G1), config[1], cipherAvailable, now, k2)
            R == cleanupOversized(After(G2), config[1])
        IN  (generateCacheKey(k1) # generateCacheKey(k2) /\ G1.hit /\ G2.hit) =>
                (~MapHas(R.idx, generateCacheKey(k2)) => ~MapHas(R.idx, generateCacheKey(k1)))

\* what cleanupExpired() returns and leaves in the current state
ExpiredNow == cleanupExpired(StateOf(1), now)

\* C24: after cleanupExpired() the index holds no entry with now > expiresAt,
\* every entry with now <= expiresAt is still there as it was, in the same order,
\* with its blob, the blobs of the removed entries are gone, and cleanedCount is the
\* number of entries removed.
C24_ExpirySweep ==
    /\ \A i \in 1..Len(ExpiredNow.idx) : now <= ExpiredNow.idx[i].expiresAt
    /\ ExpiredNow.idx = SelectSeq(TheIndex, LAMBDA e : now <= e.expiresAt)
    /\ \A i \in 1..Len(TheIndex) :
          LET ck == TheIndex[i].cacheKey
          IN  IF now <= TheIndex[i].expiresAt
              THEN ck \in DOMAIN blobs =>
                       (ck \in DOMAIN ExpiredNow.fs /\ ExpiredNow.fs[ck] = blobs[ck])
              ELSE ck \notin DOMAIN ExpiredNow.fs
    /\ ExpiredNow.cleanedCount = Len(TheIndex) - Len(ExpiredNow.idx)

\* C24 witness: the index holds a live entry followed by an expired one, and the
\* sweep removes exactly the expired one
C24_Witness ==
    /\ Len(TheIndex) = 2
    /\ now <= TheIndex[1].expiresAt
    /\ now > TheIndex[2].expiresAt
    /\ DOMAIN blobs = MapKeys(TheIndex)
    /\ ExpiredNow.cleanedCount = 1
    /\ ExpiredNow.idx = <<TheIndex[1]>>

\* the entries of the index that have not expired
LiveEntries == SelectSeq(TheIndex, LAMBDA e : now <= e.expiresAt)

\* C25: cleanup() is the expiry sweep followed by the size sweep on what it left:
\* no expired entry is left, an entry that has not expired is evicted only if the
\* entries that have not expired exceed maxCacheSize by themselves, and
\* totalCleaned is the sum of the removal counts of the two sweeps.
C25_CleanupOrder ==
    LET O == cleanupOversized(After(ExpiredNow), config[1])
    IN  /\ CleanupNow.idx = O.idx
        /\ CleanupNow.fs = O.fs
        /\ CleanupNow.totalCleaned = ExpiredNow.cleanedCount + O.cleanedCount
        /\ CleanupNow.totalCleaned = Len(TheIndex) - Len(CleanupNow.idx)
        /\ \A i \in 1..Len(CleanupNow.idx) : now <= CleanupNow.idx[i].expiresAt
        /\ CleanupNow.idx # LiveEntries =>
               SumSize(LiveEntries) > config[1].maxCacheSize

\* C26: a newly constructed manager has hits = 0 and misses = 0 whatever earlier
\* instances did on the cache directory, and set, get, has, delete and the sweeps
\* never decrease hits or misses.
C26_CountersPerInstance ==
    /\ Constructed.stats.hits = 0
    /\ Constructed.stats.misses = 0
    /\ \A k \in Keys :
          \A stats \in {GetNow(k).stats, HasNow(k).stats, DeleteNow(k).stats,
                        SetNow(k, StrX, <<>>).stats, ExpiredNow.stats, OversizedNow.stats,
                        CleanupNow.stats} :
              stats.hits >= TheStats.hits /\ stats.misses >= TheStats.misses

\* the key has an index entry that has not expired and a blob file, and get does
\* not hit: the blob file cannot be parsed or its payload cannot be decoded
GetFailsOnBlob(k) ==
    /\ Live(k)
    /\ generateCacheKey(k) \in DOMAIN blobs
    /\ ~GetNow(k).hit

\* what the caller of get receives: the value, or null
ResultOf(R) == R.val

\* C27: what get returns for an entry whose blob cannot be read or decoded differs
\* from what get returns for a key that has no entry.
C27_DecodeFailureDistinct ==
    \A k \in Keys :
        GetFailsOnBlob(k) =>
            ResultOf(GetNow(k))
                # ResultOf(get(FreshManager, config[1], cipherAvailable, now, k))

\* C28: a get that fails reading or decoding the blob of an entry leaves the index
\* entry, the blob file and the snapshot as they were and changes only the miss
\* counter, by one.
C28_FailedGetKeepsEntry ==
    \A k \in Keys :
        GetFailsOnBlob(k) =>
            /\ GetNow(k).idx = TheIndex
            /\ GetNow(k).fs = blobs
            /\ GetNow(k).snap = snapshot
            /\ GetNow(k).stats = [TheStats EXCEPT !.misses = TheStats.misses + 1]

\* C28 witness: the payload of an object entry is whole and cannot be decoded under
\* the codec settings in force; a get has missed and the entry and its blob are
\* still there
C28_Witness ==
    /\ TheStats.misses >= 1
    /\ GetFailsOnBlob(KeyA)
    /\ ~blobs[generateCacheKey(KeyA)].torn
    /\ MapGet(TheIndex, generateCacheKey(KeyA)).dataType = "object"
    /\ MapGet(initializeCache(snapshot).idx, generateCacheKey(KeyA))
           = MapGet(TheIndex, generateCacheKey(KeyA))

\* C29: two managers on one cache directory each persist their own in-memory index:
\* the snapshot a set of manager m writes is m's index and nothing else, whatever
\* the other manager wrote before, and the snapshot on disk is always the index of
\* one of the managers.
C29_LastWriterWins ==
    /\ snapshot # <<>> => \E m \in Managers : snapshot[1].index = cacheIndex[m]
    /\ \A m \in Managers : \A k \in CoreKeys :
          LET R == set(StateOf(m), config[m], cipherAvailable, now, k, StrX, <<>>, "ok")
          IN  /\ R.snap # <<>>
              /\ R.snap[1].index = R.idx
              /\ MapKeys(R.snap[1].index) = MapKeys(cacheIndex[m]) \cup {generateCacheKey(k)}

\* C29 witness: after manager 1 set KeyA and manager 2 set KeyS1, the snapshot is
\* manager 2's index; it omits KeyA although KeyA's blob exists and manager 1 holds
\* its entry
C29_Witness ==
    /\ snapshot # <<>>
    /\ snapshot[1].index = cacheIndex[2]
    /\ MapHas(snapshot[1].index, generateCacheKey(KeyS1))
    /\ ~MapHas(snapshot[1].index, generateCacheKey(KeyA))
    /\ generateCacheKey(KeyA) \in DOMAIN blobs
    /\ MapHas(cacheIndex[1], generateCacheKey(KeyA))

\* a completed run of backup() on the directory as it is
BackupNow == backup(backupDir, now, TRUE, TRUE)

\* C30: after a completed backup() run the directory holds at most maxBackups backup
\* files, and a file the run deleted is older than every file it kept.
C30_BackupRetention ==
    BackupNow.completed =>
        /\ Cardinality(DOMAIN BackupNow.dir) <= MaxBackups
        /\ \A f \in (DOMAIN backupDir) \ (DOMAIN BackupNow.dir) :
              \A g \in DOMAIN BackupNow.dir : backupDir[f] < BackupNow.dir[g]

\* C33: after set, delete, cleanupExpired, cleanupOversized and clear have changed
\* the cache, the stats in the snapshot file are the in-memory stats, lastCleanup
\* included.
C33_SnapshotCarriesStats ==
    /\ \A k \in Keys :
          /\ SetNow(k, StrX, <<>>).snap[1].stats = SetNow(k, StrX, <<>>).stats
          /\ DeleteNow(k).ok => DeleteNow(k).snap[1].stats = DeleteNow(k).stats
    /\ ExpiredNow.cleanedCount > 0 => ExpiredNow.snap[1].stats = ExpiredNow.stats
    /\ OversizedNow.cleanedCount > 0 => OversizedNow.snap[1].stats = OversizedNow.stats
    /\ ClearNow.snap[1].stats = ClearNow.stats

\* C34: set(k, v) leaves the index entry and the blob of every other cache key as
\* they were, and adds none, whatever the total size becomes.
C34_SetFrame ==
    \A k \in Keys : \A data \in Values : \A options \in Options :
        LET R == SetNow(k, data, options)
        IN  \A ck \in CacheKeys \ {generateCacheKey(k)} :
                /\ MapHas(R.idx, ck) <=> MapHas(TheIndex, ck)
                /\ MapHas(TheIndex, ck) => MapGet(R.idx, ck) = MapGet(TheIndex, ck)
                /\ ck \in DOMAIN R.fs <=> ck \in DOMAIN blobs
                /\ ck \in DOMAIN blobs => R.fs[ck] = blobs[ck]

\* C34 witness: two sets have left two entries, each with its blob, whose total size
\* is over maxCacheSize
C34_Witness ==
    /\ Len(TheIndex) = 2
    /\ DOMAIN blobs = MapKeys(TheIndex)
    /\ SumSize(TheIndex) > config[1].maxCacheSize
    /\ TheStats.totalSize = SumSize(TheIndex)

\* the local items followed by the remote items that are equal to no item already
\* there
RECURSIVE withMissing(_, _)
withMissing(merged, remoteData) ==
    IF remoteData = <<>> THEN merged
    ELSE withMissing(IF \E i \in 1..Len(merged) : merged[i] = Head(remoteData)
                     THEN merged
                     ELSE Append(merged, Head(remoteData)),
                     Tail(remoteData))

\* the keys of the properties of a JSON object
KeysOf(props) == {props[i][1] : i \in 1..Len(props)}

\* the value of property key of a JSON object that has it
ValueOf(props, key) == props[CHOOSE i \in 1..Len(props) : props[i][1] = key][2]

\* file f is on both sides and syncFile(f), called now, would detect a conflict
InConflict(f) ==
    /\ localFiles[f] # <<>>
    /\ remoteFiles[f] # <<>>
    /\ detectConflict(localFiles[f][1], getGitHubFile(remoteFiles[f], TRUE, now)[1])

\* C31: resolveConflict returns the local content under 'local', the remote content
\* under 'remote', and under 'merge', for two JSON arrays the local items followed
\* by the remote items equal to no item already there, for two JSON objects the
\* union of the properties with the local values winning, and for a file that is not
\* JSON or cannot be parsed the local content; it adds one entry to the conflict log.
C31_ConflictStrategies ==
    \A f \in SyncFileNames : \A strategy \in Strategies :
        InConflict(f) =>
            LET localFile == localFiles[f][1]
                remoteFile == getGitHubFile(remoteFiles[f], TRUE, now)[1]
                R == resolveConflict(f, localFile, remoteFile, strategy, conflictLog)
                L == localFile.content
                M == remoteFile.content
            IN  /\ Len(R.conflictLog) = Len(conflictLog) + 1
                /\ strategy = "local" => R.content = L
                /\ strategy = "remote" => R.content = M
                /\ (strategy = "merge"
                        /\ (~endsWithJson(f) \/ ~parsesAsJson(L) \/ ~parsesAsJson(M)))
                       => R.content = L
                /\ (strategy = "merge" /\ endsWithJson(f)
                        /\ L.kind = "array" /\ M.kind = "array")
                       => R.content = ArrayOf(withMissing(L.body, M.body))
                /\ (strategy = "merge" /\ endsWithJson(f)
                        /\ L.kind = "object" /\ M.kind = "object")
                       => /\ R.content.kind = "object"
                          /\ KeysOf(R.content.body) = KeysOf(L.body) \cup KeysOf(M.body)
                          /\ Len(R.content.body) = Cardinality(KeysOf(R.content.body))
                          /\ \A key \in KeysOf(R.content.body) :
                                ValueOf(R.content.body, key) =
                                    IF key \in KeysOf(L.body) THEN ValueOf(L.body, key)
                                    ELSE ValueOf(M.body, key)

\* what syncFile(f) returns and leaves when it is called now and nothing else
\* touches the files during the call
SyncNow(f, getOk, putOk) ==
    syncFile(f, localFiles[f], remoteFiles[f], conflictResolution, conflictLog, now,
             getOk, putOk)

\* the distance of the modification times syncFile(f) compares
TimeDiff(f) ==
    LET l == localFiles[f][1].lastModified
        r == getGitHubFile(remoteFiles[f], TRUE, now)[1].lastModified
    IN  IF l >= r THEN l - r ELSE r - l

\* C32: when syncFile finds a local and a remote version of different content, it
\* resolves a conflict iff their modification times differ by less than the window;
\* otherwise a local version modified later is uploaded and the local file is left
\* alone, and a remote version modified later is written over the local file and the
\* remote is left alone; with the same content nothing is written.
C32_ConflictDetection ==
    \A f \in SyncFileNames : \A putOk \in BOOLEAN :
        (localFiles[f] # <<>> /\ remoteFiles[f] # <<>>) =>
            LET localFile == localFiles[f][1]
                remoteFile == getGitHubFile(remoteFiles[f], TRUE, now)[1]
                R == SyncNow(f, TRUE, putOk)
            IN  IF localFile.content = remoteFile.content
                THEN /\ R.action = "no_change"
                     /\ R.local = localFiles[f]
                     /\ R.remote = remoteFiles[f]
                     /\ R.conflictLog = conflictLog
                ELSE /\ Len(R.conflictLog) = Len(conflictLog) + 1
                            <=> TimeDiff(f) < ConflictWindow
                     /\ Len(R.conflictLog) = Len(conflictLog) => R.conflictLog = conflictLog
                     /\ (TimeDiff(f) >= ConflictWindow
                            /\ localFile.lastModified > remoteFile.lastModified)
                           => /\ R.local = localFiles[f]
                              /\ putOk => /\ R.action = "sync_upload"
                                          /\ R.remote[1].content = localFile.content
                              /\ ~putOk => ~R.success /\ R.remote = remoteFiles[f]
                     /\ (TimeDiff(f) >= ConflictWindow
                            /\ localFile.lastModified < remoteFile.lastModified)
                           => /\ R.action = "sync_download"
                              /\ R.local[1].content = remoteFile.content
                              /\ R.remote = remoteFiles[f]

\* C32 witness: a run of performSync has returned, and the two versions of the data
\* file differ in content and are modified exactly the window apart, the local one
\* later
C32_Witness ==
    /\ syncHistory # <<>>
    /\ localFiles[syncDataFile] # <<>>
    /\ remoteFiles[syncDataFile] # <<>>
    /\ remoteFiles[syncDataFile][1].date # <<>>
    /\ localFiles[syncDataFile][1].content # remoteFiles[syncDataFile][1].content
    /\ localFiles[syncDataFile][1].lastModified
           = remoteFiles[syncDataFile][1].date[1] + ConflictWindow

\* C35: when syncFile(f) returns success and nothing else touched the files during
\* the call, the local file and the remote file exist and have the same content.
C35_SyncConverges ==
    \A f \in SyncFileNames : \A getOk \in BOOLEAN : \A putOk \in BOOLEAN :
        LET R == SyncNow(f, getOk, putOk)
        IN  R.success =>
                /\ R.local # <<>>
                /\ R.remote # <<>>
                /\ R.local[1].content = R.remote[1].content

\* C35 witness: a run has resolved a conflict on the data file and returned success
\* for it, and the two sides have the same content
C35_Witness ==
    /\ conflictLog # <<>>
    /\ syncHistory # <<>>
    /\ syncHistory[1].results[1]
    /\ syncHistory[1].conflicts >= 1
    /\ localFiles[syncDataFile] # <<>>
    /\ remoteFiles[syncDataFile] # <<>>
    /\ localFiles[syncDataFile][1].content = remoteFiles[syncDataFile][1].content

\* C36: when syncFile(f) returns success = false, the content of the local file is
\* what it was before the call.
C36_FailureKeepsLocal ==
    \A f \in SyncFileNames : \A getOk \in BOOLEAN : \A putOk \in BOOLEAN :
        LET R == SyncNow(f, getOk, putOk)
        IN  ~R.success =>
                /\ R.local = <<>> <=> localFiles[f] = <<>>
                /\ R.local # <<>> => R.local[1].content = localFiles[f][1].content

\* C37: at most one execution of performSync is in progress.
C37_NoOverlap == Len(syncRuns) <= 1

\* C38: validate() exits with status 0 iff every supported file is fetched and
\* validated with no error; a data file with no error counts as valid.
C38_ValidationVerdict ==
    validatorInput.token =>
        (validate(validatorInput) = 0
            <=> \A i \in 1..Len(supportedFiles) :
                    validatorInput.files[i].fetched /\ validatorInput.files[i].errors = 0)

\* C39: generateReport() returns true exactly when every recorded test succeeded, so
\* runAllTests exits with 0 iff all tests passed and with 1 iff one failed.
C39_TestVerdict ==
    /\ Len(testResults) = NumberOfTests =>
          (generateReport(testResults) <=> \A i \in 1..Len(testResults) : testResults[i])
    /\ testerExit # <<>> =>
          (testerExit[1] = 0 <=> \A i \in 1..Len(testResults) : testResults[i])

\* what performCleanup() returns and leaves when it is called now and succeeds
CleanupServiceNow == performCleanup(ipRecords, now, TRUE, TRUE)

\* C40: after a successful performCleanup, a second one at once finds no expired
\* record and writes nothing: the records and the metadata stay as the first left
\* them.
C40_CleanupFixedPoint ==
    LET Again == performCleanup(CleanupServiceNow.file, now, TRUE, TRUE)
    IN  CleanupServiceNow.success =>
            /\ Again.expiredCount = 0
            /\ ~Again.wrote
            /\ Again.file = CleanupServiceNow.file

====
